---- MODULE Spec2Model ----
(***************************************************************************)
(* Model of the analysis ingestion and graph-materialization pipeline of   *)
(* shapefuture/clientelle: the upload-data edge function, the              *)
(* process-ai-analysis edge function, and the tables they write.           *)
(*                                                                         *)
(* Every await of a handler is one step of the handler's process, so that  *)
(* handlers interleave exactly where the runtime lets them.                *)
(***************************************************************************)
EXTENDS Integers, Sequences, FiniteSets, TLC

VARIABLES
    sources,            \* table sources, in insertion order
    raw_data,           \* table raw_data
    quotes,             \* table quotes
    nodes,              \* table nodes
    edges,              \* table edges
    quote_node_links,   \* table quote_node_links
    openrouterApiKey,   \* Deno.env.get('OPENROUTER_API_KEY')
    geminiApiKey,       \* Deno.env.get('GEMINI_API_KEY')
    upload,             \* the upload-data requests: position, request, locals, response
    analysis,           \* the process-ai-analysis requests
    llmCalls,           \* the completion() calls issued so far, in order
    now                 \* the storage clock: the number of timestamps taken so far

tables == <<sources, raw_data, quotes, nodes, edges, quote_node_links>>
graph  == <<quotes, nodes, edges, quote_node_links>>
env    == <<openrouterApiKey, geminiApiKey>>
vars   == <<sources, raw_data, quotes, nodes, edges, quote_node_links,
            openrouterApiKey, geminiApiKey, upload, analysis, llmCalls, now>>

-----------------------------------------------------------------------------
(* JavaScript values.  A string is a sequence of characters; a uuid is a   *)
(* string the storage layer generated, kept apart by its tag so that it    *)
(* is never confused with text the caller or the model supplied.           *)

Undefined   == [t |-> "undefined"]
Null        == [t |-> "null"]
Str(s)      == [t |-> "string", v |-> s]
Num(n)      == [t |-> "number", v |-> n]
Bool(b)     == [t |-> "boolean", v |-> b]
Uuid(n)     == [t |-> "uuid", v |-> n]
Timestamp(n) == [t |-> "timestamp", v |-> n]

\* typeof v
TypeOf(v) ==
    CASE v.t = "undefined" -> "undefined"
      [] v.t = "string"    -> "string"
      [] v.t = "uuid"      -> "string"
      [] v.t = "number"    -> "number"
      [] v.t = "boolean"   -> "boolean"
      [] OTHER             -> "object"      \* null, objects and arrays

\* ToBoolean(v): what `!v`, `v && ...` and `v || ...` test
Truthy(v) ==
    CASE v.t = "undefined" -> FALSE
      [] v.t = "null"      -> FALSE
      [] v.t = "string"    -> v.v # <<>>
      [] v.t = "number"    -> v.v # 0
      [] v.t = "boolean"   -> v.v
      [] OTHER             -> TRUE

\* a || b
OrElse(a, b) == IF Truthy(a) THEN a ELSE b

\* a ?? b
Coalesce(a, b) == IF a.t \in {"undefined", "null"} THEN b ELSE a

\* obj?.field : undefined on null and undefined, and on a value without the field
Field(obj, f) ==
    IF obj.t = "object" /\ f \in DOMAIN obj THEN obj[f] ELSE Undefined

\* String.prototype.trim
IsSpace(c) == c = " "

RECURSIVE TrimStart(_)
TrimStart(s) ==
    IF s # <<>> /\ IsSpace(Head(s)) THEN TrimStart(Tail(s)) ELSE s

RECURSIVE TrimEnd(_)
TrimEnd(s) ==
    IF s # <<>> /\ IsSpace(s[Len(s)]) THEN TrimEnd(SubSeq(s, 1, Len(s) - 1)) ELSE s

Trim(s) == TrimEnd(TrimStart(s))

\* String(n) for the small naturals used as property keys
NumberToString(n) ==
    CASE n = 0 -> "0" [] n = 1 -> "1" [] n = 2 -> "2" [] n = 3 -> "3" [] n = 4 -> "4"
      [] n = 5 -> "5" [] n = 6 -> "6" [] n = 7 -> "7" [] n = 8 -> "8" [] n = 9 -> "9"

\* ToPropertyKey(v): the key under which obj[v] reads and writes
PropertyKey(v) ==
    CASE v.t = "number"    -> NumberToString(v.v)
      [] v.t = "undefined" -> "undefined"
      [] v.t = "null"      -> "null"
      [] OTHER             -> "object"

\* obj[key] on a Record<string, string> built by assignment
Lookup(map, v) ==
    IF PropertyKey(v) \in DOMAIN map THEN map[PropertyKey(v)] ELSE Undefined

\* obj[key] = value
Assign(map, v, value) ==
    [k \in DOMAIN map \cup {PropertyKey(v)} |->
        IF k = PropertyKey(v) THEN value ELSE map[k]]

EmptyMap == [k \in {} |-> Undefined]

-----------------------------------------------------------------------------
(* Storage.  Each table is the sequence of its rows in insertion order;    *)
(* gen_random_uuid() is a value no other row of any table carries.         *)

sourcesId(n)  == Uuid(100 + n)
raw_dataId(n) == Uuid(200 + n)
quotesId(n)   == Uuid(300 + n)
nodesId(n)    == Uuid(400 + n)
edgesId(n)    == Uuid(500 + n)
linksId(n)    == Uuid(600 + n)

Rows(table) == {table[i] : i \in 1..Len(table)}

Last(table) == table[Len(table)]

\* a table after .insert(rows): the rows appended in order
Inserted(table, rows) == table \o rows

\* JSON.stringify writes no property whose value is undefined; the storage
\* layer stores NULL in a column the insert names and gives no value for.
Serialized(row) ==
    [c \in DOMAIN row |-> IF row[c].t = "undefined" THEN Null ELSE row[c]]

\* JSON.parse(JSON.stringify(obj)) of a request body: the properties whose
\* value is undefined are gone.
JsonBody(obj) ==
    [f \in {g \in DOMAIN obj : g = "t" \/ obj[g].t # "undefined"} |-> obj[f]]

-----------------------------------------------------------------------------
(* HTTP messages.  A request body is the text the caller sent: either no   *)
(* JSON at all, or the JSON value req.json() yields.                       *)

InvalidJson == [t |-> "invalid-json"]
Obj(fields) == [t |-> "object"] @@ fields

\* new Response(JSON.stringify(body), { status }).  The error of a body is
\* the sequence of the pieces the code concatenates; message and
\* analysis_status are literals of the code.
Response(status, body) == [status |-> status, body |-> body]
NoResponse == [status |-> 0, body |-> Undefined]

\* Response.ok
Ok(response) == response.status >= 200 /\ response.status <= 299

-----------------------------------------------------------------------------
(* upload-data/index.ts                                                    *)

\* No request to the /upload route stands behind a request to upload-data
NoRoute == [used |-> FALSE, user |-> Null, body |-> Undefined, response |-> NoResponse]

IdleUpload ==
    [pc |-> "idle", request |-> [method |-> "", body |-> Undefined],
     source |-> Undefined, rawData |-> Undefined, response |-> NoResponse,
     route |-> NoRoute]

\* const { text_content, source_metadata, user_ai_key } = body
BodyField(request, f) == Field(request.body, f)

\* const user_id = source_metadata?.user_id || null
UploadUserId(request) ==
    OrElse(Field(BodyField(request, "source_metadata"), "user_id"), Null)

\* UploadValidation without its last check (text_content and user_id required)
UploadValidationNoRequired(request) ==
    LET body == request.body IN
    IF request.method # "POST"
    THEN Response(405, Obj([error |-> <<"Method not allowed">>]))
    ELSE IF body = InvalidJson
    THEN Response(400, Obj([error |-> <<"Invalid JSON body">>]))
    ELSE IF \/ ~Truthy(body)
            \/ TypeOf(Field(body, "text_content")) # "string"
            \/ TypeOf(Field(body, "source_metadata")) # "object"
    THEN Response(400, Obj([error |-> <<"Invalid input structure">>]))
    ELSE NoResponse

\* The checks made before the first insert: the response of a rejected
\* request, NoResponse for a request that passes them.
UploadValidation(request) ==
    LET body == request.body IN
    IF request.method # "POST"
    THEN Response(405, Obj([error |-> <<"Method not allowed">>]))
    ELSE IF body = InvalidJson
    THEN Response(400, Obj([error |-> <<"Invalid JSON body">>]))
    ELSE IF \/ ~Truthy(body)
            \/ TypeOf(Field(body, "text_content")) # "string"
            \/ TypeOf(Field(body, "source_metadata")) # "object"
    THEN Response(400, Obj([error |-> <<"Invalid input structure">>]))
    ELSE IF ~Truthy(Field(body, "text_content")) \/ ~Truthy(UploadUserId(request))
    THEN Response(400, Obj([error |-> <<"text_content and user_id are required">>]))
    ELSE NoResponse

\* SourceRow that keeps the whole request body as metadata
SourceRowWholeBody(u, request) ==
    [id |-> sourcesId(Len(sources) + 1), by |-> u] @@
    Serialized([user_id  |-> UploadUserId(request),
                type     |-> Str(<<"m">>),
                url      |-> Undefined,
                metadata |-> request.body])

\* The row upload-data inserts into sources
SourceRow(u, request) ==
    LET source_metadata == BodyField(request, "source_metadata") IN
    [id |-> sourcesId(Len(sources) + 1), by |-> u] @@
    Serialized([user_id  |-> UploadUserId(request),
                type     |-> OrElse(Field(source_metadata, "type"), Str(<<"m">>)),
                url      |-> Field(source_metadata, "url"),
                metadata |-> source_metadata])

\* RawDataRow that stores the text of the request under no source
RawDataRowNoSource(u, request, source) ==
    [id |-> raw_dataId(Len(raw_data) + 1), by |-> u] @@
    Serialized([source_id |-> Undefined,
                user_id   |-> UploadUserId(request),
                content   |-> BodyField(request, "text_content")]) @@
    [processed_at |-> Null]

\* RawDataRow that names the newest source in storage instead of its own
RawDataRowLastSource(u, request, source) ==
    [id |-> raw_dataId(Len(raw_data) + 1), by |-> u] @@
    Serialized([source_id |-> Last(sources).id,
                user_id   |-> UploadUserId(request),
                content   |-> BodyField(request, "text_content")]) @@
    [processed_at |-> Null]

\* The row upload-data inserts into raw_data
RawDataRow(u, request, source) ==
    [id |-> raw_dataId(Len(raw_data) + 1), by |-> u] @@
    Serialized([source_id |-> source.id,
                user_id   |-> UploadUserId(request),
                content   |-> BodyField(request, "text_content")]) @@
    [processed_at |-> Null]

\* UploadResponse that reports success whatever the invocation returned
UploadResponseAlwaysSuccess(rawData, source, analysisInvokeError) ==
    Response(200,
        Obj([message         |-> "Data uploaded and analysis function invoked",
             raw_data_id     |-> rawData.id,
             source_id       |-> source.id,
             analysis_status |-> "success",
             debug           |-> Obj([analysis_invoke_error |-> analysisInvokeError])]))

\* The 200 response of upload-data
UploadResponse(rawData, source, analysisInvokeError) ==
    Response(200,
        Obj([message         |-> "Data uploaded and analysis function invoked",
             raw_data_id     |-> rawData.id,
             source_id       |-> source.id,
             analysis_status |-> IF Truthy(analysisInvokeError) THEN "failed" ELSE "success",
             debug           |-> Obj([analysis_invoke_error |-> analysisInvokeError])]))

\* The catch block of upload-data
UploadFatal(error) ==
    Response(500, Obj([error |-> <<error>>, debug |-> Str(<<"stack">>)]))

\* A request arrives; the handler runs up to its first insert.
UploadReceive(u, request) ==
    /\ upload[u].pc = "idle"
    /\ LET rejected == UploadValidation(request) IN
       upload' = [upload EXCEPT ![u] =
           IF rejected # NoResponse
           THEN [@ EXCEPT !.request = request, !.pc = "done", !.response = rejected]
           ELSE [@ EXCEPT !.request = request, !.pc = "saveSource"]]
    /\ UNCHANGED <<tables, env, analysis, llmCalls, now>>

\* 1. Save source
UploadSaveSource(u, sourceError) ==
    /\ upload[u].pc = "saveSource"
    /\ IF sourceError
       THEN /\ upload' = [upload EXCEPT ![u].pc = "done",
                              ![u].response = UploadFatal("sourceError")]
            /\ UNCHANGED sources
       ELSE LET row == SourceRow(u, upload[u].request) IN
            /\ sources' = Inserted(sources, <<row>>)
            /\ upload' = [upload EXCEPT ![u].pc = "saveText", ![u].source = row]
    /\ UNCHANGED <<raw_data, graph, env, analysis, llmCalls, now>>

\* UploadSaveText that goes on to the invocation when the insert failed
UploadSaveTextGoingOn(u, rawDataError) ==
    /\ upload[u].pc = "saveText"
    /\ LET row == RawDataRow(u, upload[u].request, upload[u].source) IN
       /\ raw_data' = IF rawDataError THEN raw_data ELSE Inserted(raw_data, <<row>>)
       /\ upload' = [upload EXCEPT ![u].pc = "invoke", ![u].rawData = row]
    /\ UNCHANGED <<sources, graph, env, analysis, llmCalls, now>>

\* 2. Save text
UploadSaveText(u, rawDataError) ==
    /\ upload[u].pc = "saveText"
    /\ IF rawDataError
       THEN /\ upload' = [upload EXCEPT ![u].pc = "done",
                              ![u].response = UploadFatal("rawDataError")]
            /\ UNCHANGED raw_data
       ELSE LET row == RawDataRow(u, upload[u].request, upload[u].source) IN
            /\ raw_data' = Inserted(raw_data, <<row>>)
            /\ upload' = [upload EXCEPT ![u].pc = "invoke", ![u].rawData = row]
    /\ UNCHANGED <<sources, graph, env, analysis, llmCalls, now>>

-----------------------------------------------------------------------------
(* process-ai-analysis/index.ts                                            *)

IdleAnalysis ==
    [pc |-> "idle", request |-> [method |-> "", body |-> Undefined],
     analysisResult |-> Undefined,
     quoteTempIdToDbId |-> EmptyMap, nodeTempIdToDbId |-> EmptyMap,
     logged |-> {}, response |-> NoResponse]

\* The checks made before the raw_data fetch: the response of a rejected
\* request, NoResponse for a request that passes them.  Destructuring a
\* null body throws outside every try block, which serve() answers with 500.
AnalysisValidation(request) ==
    LET body == request.body IN
    IF request.method # "POST"
    THEN Response(405, Obj([error |-> <<"Method not allowed">>]))
    ELSE IF body = InvalidJson
    THEN Response(400, Obj([error |-> <<"Invalid JSON body">>]))
    ELSE IF body.t \in {"null", "undefined"}
    THEN Response(500, Obj([error |-> <<"Internal Server Error">>]))
    ELSE IF ~Truthy(Field(body, "raw_data_id")) \/ ~Truthy(Field(body, "user_id"))
    THEN Response(400, Obj([error |-> <<"raw_data_id and user_id are required">>]))
    ELSE NoResponse

\* The handler from the arrival of a request up to its first await
AnalysisReceived(request) ==
    LET rejected == AnalysisValidation(request) IN
    IF rejected # NoResponse
    THEN [IdleAnalysis EXCEPT !.request = request, !.pc = "done", !.response = rejected]
    ELSE [IdleAnalysis EXCEPT !.request = request, !.pc = "fetch"]

\* FetchRawData that yields some stored row whatever the request names
FetchRawDataAnyRow(raw_data_id, user_id) ==
    IF raw_data = <<>> THEN <<>> ELSE <<raw_data[1]>>

\* FetchRawData without the filter on user_id
FetchRawDataAnyOwner(raw_data_id, user_id) ==
    SelectSeq(raw_data, LAMBDA row: row.id = raw_data_id)

\* .from('raw_data').select('content').eq('id', raw_data_id).eq('user_id', user_id)
FetchRawData(raw_data_id, user_id) ==
    SelectSeq(raw_data, LAMBDA row: row.id = raw_data_id /\ row.user_id = user_id)

\* SelectApiKey that prefers GEMINI_API_KEY to OPENROUTER_API_KEY
SelectApiKeyGeminiFirst(user_ai_key, openrouter, gemini) ==
    IF /\ Truthy(user_ai_key)
       /\ TypeOf(user_ai_key) = "string"
       /\ Len(Trim(user_ai_key.v)) > 0
    THEN [selectedApiKey |-> user_ai_key, selectedProvider |-> "user"]
    ELSE IF Truthy(gemini)
    THEN [selectedApiKey |-> gemini, selectedProvider |-> "gemini"]
    ELSE IF Truthy(openrouter)
    THEN [selectedApiKey |-> openrouter, selectedProvider |-> "openrouter"]
    ELSE [selectedApiKey |-> Null, selectedProvider |-> "none"]

\* SelectApiKey that looks at the deployment's keys before the caller's
SelectApiKeyFallbackFirst(user_ai_key, openrouter, gemini) ==
    IF Truthy(openrouter)
    THEN [selectedApiKey |-> openrouter, selectedProvider |-> "openrouter"]
    ELSE IF Truthy(gemini)
    THEN [selectedApiKey |-> gemini, selectedProvider |-> "gemini"]
    ELSE IF /\ Truthy(user_ai_key)
            /\ TypeOf(user_ai_key) = "string"
            /\ Len(Trim(user_ai_key.v)) > 0
    THEN [selectedApiKey |-> user_ai_key, selectedProvider |-> "user"]
    ELSE [selectedApiKey |-> Null, selectedProvider |-> "none"]

\* SelectApiKey whose last branch takes GEMINI_API_KEY without testing it
SelectApiKeyNoLastTest(user_ai_key, openrouter, gemini) ==
    IF /\ Truthy(user_ai_key)
       /\ TypeOf(user_ai_key) = "string"
       /\ Len(Trim(user_ai_key.v)) > 0
    THEN [selectedApiKey |-> user_ai_key, selectedProvider |-> "user"]
    ELSE IF Truthy(openrouter)
    THEN [selectedApiKey |-> openrouter, selectedProvider |-> "openrouter"]
    ELSE [selectedApiKey |-> gemini, selectedProvider |-> "gemini"]

\* Priority: user_ai_key (if present and non-empty), else openrouterApiKey,
\* else geminiApiKey; selectedApiKey stays null when none is available.
SelectApiKey(user_ai_key, openrouter, gemini) ==
    IF /\ Truthy(user_ai_key)
       /\ TypeOf(user_ai_key) = "string"
       /\ Len(Trim(user_ai_key.v)) > 0
    THEN [selectedApiKey |-> user_ai_key, selectedProvider |-> "user"]
    ELSE IF Truthy(openrouter)
    THEN [selectedApiKey |-> openrouter, selectedProvider |-> "openrouter"]
    ELSE IF Truthy(gemini)
    THEN [selectedApiKey |-> gemini, selectedProvider |-> "gemini"]
    ELSE [selectedApiKey |-> Null, selectedProvider |-> "none"]

\* The catch (llmError) block
AnalysisFailed(message) ==
    Response(500, Obj([error |-> <<"Analysis failed: ", message>>]))

\* The catch (llmError) block for an error thrown by completion(): the
\* message is the provider's, which names the error and may repeat the
\* api_key it was given (echoed).
AnalysisRejected(api_key, echoed) ==
    Response(500, Obj([error |-> <<"Analysis failed: ", "llmError">>
                                 \o (IF echoed THEN api_key.v ELSE <<>>)]))

\* The general catch block
AnalysisError(message) ==
    Response(500, Obj([error |-> <<message>>]))

\* 5. Success response
AnalysisCompleted(raw_data_id) ==
    Response(200, Obj([message |-> "Analysis completed and results saved.",
                       raw_data_id |-> raw_data_id]))

\* 1. Fetch the raw text, choose the API key and call the LLM
AnalysisFetch(r, fetchError) ==
    /\ analysis[r].pc = "fetch"
    /\ LET body     == analysis[r].request.body
           rawData  == FetchRawData(Field(body, "raw_data_id"), Field(body, "user_id"))
           selected == SelectApiKey(Field(body, "user_ai_key"),
                                    openrouterApiKey, geminiApiKey)
       IN  IF fetchError \/ Len(rawData) # 1
           THEN /\ analysis' = [analysis EXCEPT ![r].pc = "done",
                                    ![r].response = AnalysisError("fetchError")]
                /\ UNCHANGED llmCalls
           ELSE IF selected.selectedProvider = "none"
           THEN /\ analysis' = [analysis EXCEPT ![r].pc = "done",
                                    ![r].response =
                                        AnalysisFailed("No valid API key available for LLM call.")]
                /\ UNCHANGED llmCalls
           ELSE /\ llmCalls' = Append(llmCalls,
                                      [run |-> r, api_key |-> selected.selectedApiKey])
                /\ analysis' = [analysis EXCEPT ![r].pc = "completion"]
    /\ UNCHANGED <<tables, env, upload, now>>

\* What the provider sends back: text that JSON.parse accepts, yielding v
JsonText(v) == [t |-> "json-text", v |-> v]

\* Array.isArray
IsArray(v) == v.t = "array"
Array(elements) == [t |-> "array", v |-> elements]

\* analysisResult.x && Array.isArray(analysisResult.x)
HasArray(analysisResult, f) ==
    Truthy(Field(analysisResult, f)) /\ IsArray(Field(analysisResult, f))

\* litellmParams['api_key'] of the completion() call the run is waiting for
ApiKeyOf(r) ==
    LET i == CHOOSE i \in 1..Len(llmCalls) :
                 /\ llmCalls[i].run = r
                 /\ \A j \in (i + 1)..Len(llmCalls) : llmCalls[j].run # r
    IN  llmCalls[i].api_key

\* AnalysisCompletion that takes an empty content for an empty extraction
AnalysisCompletionEmptyAccepted(r, llmThrows, rawLlMResponse) ==
    /\ analysis[r].pc = "completion"
    /\ \E echoed \in BOOLEAN :
       analysis' = [analysis EXCEPT ![r] =
           IF llmThrows
           THEN [@ EXCEPT !.pc = "done",
                          !.response = AnalysisRejected(ApiKeyOf(r), echoed)]
           ELSE IF ~Truthy(rawLlMResponse)
           THEN [@ EXCEPT !.pc = "update"]
           ELSE IF rawLlMResponse.v = InvalidJson
           THEN [@ EXCEPT !.pc = "done",
                          !.response = AnalysisFailed("Failed to parse LLM JSON response: ")]
           ELSE IF rawLlMResponse.v.t \in {"null", "undefined"}
           THEN [@ EXCEPT !.pc = "done", !.response = AnalysisFailed("TypeError")]
           ELSE [@ EXCEPT !.pc = "saveQuotes", !.analysisResult = rawLlMResponse.v]]
    /\ UNCHANGED <<tables, env, upload, llmCalls, now>>

\* 2. completion() returns or throws; the content is checked and parsed
AnalysisCompletion(r, llmThrows, rawLlMResponse) ==
    /\ analysis[r].pc = "completion"
    /\ \E echoed \in BOOLEAN :
       analysis' = [analysis EXCEPT ![r] =
           IF llmThrows
           THEN [@ EXCEPT !.pc = "done",
                          !.response = AnalysisRejected(ApiKeyOf(r), echoed)]
           ELSE IF ~Truthy(rawLlMResponse)
           THEN [@ EXCEPT !.pc = "done",
                          !.response = AnalysisFailed("LLM returned empty response.")]
           ELSE IF rawLlMResponse.v = InvalidJson
           THEN [@ EXCEPT !.pc = "done",
                          !.response = AnalysisFailed("Failed to parse LLM JSON response: ")]
           ELSE IF rawLlMResponse.v.t \in {"null", "undefined"}
           THEN \* analysisResult.quotes on null: a TypeError, caught as llmError
                [@ EXCEPT !.pc = "done", !.response = AnalysisFailed("TypeError")]
           ELSE [@ EXCEPT !.pc = "saveQuotes", !.analysisResult = rawLlMResponse.v]]
    /\ UNCHANGED <<tables, env, upload, llmCalls, now>>

-----------------------------------------------------------------------------
(* 3. Materialization: quotes, nodes, edges, quote_node_links              *)

Elements(analysisResult, f) == Field(analysisResult, f).v

\* The columns of the tables the analysis writes, and those declared not null
\* that have no default
quotesColumns ==
    {"id", "raw_data_id", "user_id", "text", "start_char_index", "end_char_index",
     "created_at", "sentiment", "emotions", "metadata",
     "is_suggestion", "reviewed_at", "reviewed_by"}
nodesColumns ==
    {"id", "user_id", "type", "label", "description", "created_at", "embedding",
     "is_suggestion", "reviewed_at", "reviewed_by"}
edgesColumns ==
    {"id", "user_id", "from_node_id", "to_node_id", "type", "description", "created_at",
     "is_suggestion", "reviewed_at", "reviewed_by"}
quote_node_linksColumns ==
    {"id", "quote_id", "node_id", "user_id", "created_at",
     "is_suggestion", "reviewed_at", "reviewed_by"}

\* A row of an insert names a column the table does not have: the storage
\* layer rejects the whole insert.
UnknownColumn(rows, columns) ==
    \E i \in 1..Len(rows) : ~(DOMAIN rows[i] \subseteq columns)

\* A NOT NULL column of some row of an insert holds no value: the storage
\* layer rejects the whole insert.
NotNullViolated(rows, notNull) ==
    \E i \in 1..Len(rows) : \E c \in notNull : rows[i][c].t \in {"undefined", "null"}

\* unique (quote_id, node_id): two rows of the insert, or a row of the insert
\* and a stored row, carry the same pair.
UniqueViolated(rows) ==
    \/ \E i, j \in 1..Len(rows) :
          i # j /\ rows[i].quote_id = rows[j].quote_id /\ rows[i].node_id = rows[j].node_id
    \/ \E i \in 1..Len(rows) : \E l \in Rows(quote_node_links) :
          l.quote_id = rows[i].quote_id /\ l.node_id = rows[i].node_id

\* MapTempIds without the fallback to the position of the entry
RECURSIVE MapTempIdsNoFallback(_, _, _, _)
MapTempIdsNoFallback(map, entries, inserted, i) ==
    IF i >= Len(entries)
    THEN map
    ELSE MapTempIdsNoFallback(Assign(map, Field(entries[i + 1], "id"), inserted[i + 1].id),
                              entries, inserted, i + 1)

\* MapTempIds that files every entry under its position
RECURSIVE MapTempIdsByPosition(_, _, _, _)
MapTempIdsByPosition(map, entries, inserted, i) ==
    IF i >= Len(entries)
    THEN map
    ELSE MapTempIdsByPosition(Assign(map, Num(i), inserted[i + 1].id),
                              entries, inserted, i + 1)

\* MapTempIds that keeps the first id assigned to a key
RECURSIVE MapTempIdsFirstWins(_, _, _, _)
MapTempIdsFirstWins(map, entries, inserted, i) ==
    IF i >= Len(entries)
    THEN map
    ELSE LET tempId == Coalesce(Field(entries[i + 1], "id"), Num(i)) IN
         MapTempIdsFirstWins(IF PropertyKey(tempId) \in DOMAIN map
                             THEN map
                             ELSE Assign(map, tempId, inserted[i + 1].id),
                             entries, inserted, i + 1)

\* for (let i = 0; i < entries.length; i++) {
\*   const tempId = entries[i].id ?? i;  map[tempId] = inserted[i].id; }
\* entries[i] of the code is entries[i + 1] here.
RECURSIVE MapTempIds(_, _, _, _)
MapTempIds(map, entries, inserted, i) ==
    IF i >= Len(entries)
    THEN map
    ELSE MapTempIds(Assign(map, Coalesce(Field(entries[i + 1], "id"), Num(i)),
                           inserted[i + 1].id),
                    entries, inserted, i + 1)

\* .filter(Boolean) on the result of a map that yields rows and nulls
FilterBoolean(rows) == SelectSeq(rows, LAMBDA row: row # Null)

\* analysisResult.quotes.map(q => ({ ... }))
QuotesToInsert(entries, raw_data_id, user_id) ==
    [i \in 1..Len(entries) |->
        [raw_data_id      |-> raw_data_id,
         user_id          |-> user_id,
         text             |-> Field(entries[i], "text"),
         start_char_index |-> Field(entries[i], "start_index"),
         end_char_index   |-> Field(entries[i], "end_index"),
         is_suggestion    |-> Bool(TRUE)]]

\* analysisResult.nodes.map(n => ({ ... }))
NodesToInsert(entries, user_id) ==
    [i \in 1..Len(entries) |->
        [user_id       |-> user_id,
         type          |-> Field(entries[i], "type"),
         label         |-> Field(entries[i], "label"),
         description   |-> Field(entries[i], "description"),
         is_suggestion |-> Bool(TRUE)]]

\* EdgesToInsert that tests fromNodeId only
EdgesToInsertFromOnly(entries, nodeTempIdToDbId, user_id) ==
    FilterBoolean(
        [i \in 1..Len(entries) |->
            LET fromNodeId == Lookup(nodeTempIdToDbId, Field(entries[i], "from_node_id"))
                toNodeId   == Lookup(nodeTempIdToDbId, Field(entries[i], "to_node_id"))
            IN  IF ~Truthy(fromNodeId)
                THEN Null
                ELSE [user_id       |-> user_id,
                      from_node_id  |-> fromNodeId,
                      to_node_id    |-> toNodeId,
                      type          |-> Field(entries[i], "type"),
                      description   |-> Field(entries[i], "description"),
                      is_suggestion |-> Bool(TRUE)]])

\* EdgesToInsert that gives up the whole array at an entry it cannot resolve
EdgesToInsertAllOrNone(entries, nodeTempIdToDbId, user_id) ==
    IF \E i \in 1..Len(entries) :
          \/ ~Truthy(Lookup(nodeTempIdToDbId, Field(entries[i], "from_node_id")))
          \/ ~Truthy(Lookup(nodeTempIdToDbId, Field(entries[i], "to_node_id")))
    THEN <<>>
    ELSE [i \in 1..Len(entries) |->
            [user_id       |-> user_id,
             from_node_id  |-> Lookup(nodeTempIdToDbId, Field(entries[i], "from_node_id")),
             to_node_id    |-> Lookup(nodeTempIdToDbId, Field(entries[i], "to_node_id")),
             type          |-> Field(entries[i], "type"),
             description   |-> Field(entries[i], "description"),
             is_suggestion |-> Bool(TRUE)]]

\* analysisResult.edges.map(e => ...).filter(Boolean)
EdgesToInsert(entries, nodeTempIdToDbId, user_id) ==
    FilterBoolean(
        [i \in 1..Len(entries) |->
            LET fromNodeId == Lookup(nodeTempIdToDbId, Field(entries[i], "from_node_id"))
                toNodeId   == Lookup(nodeTempIdToDbId, Field(entries[i], "to_node_id"))
            IN  IF ~Truthy(fromNodeId) \/ ~Truthy(toNodeId)
                THEN Null
                ELSE [user_id       |-> user_id,
                      from_node_id  |-> fromNodeId,
                      to_node_id    |-> toNodeId,
                      type          |-> Field(entries[i], "type"),
                      description   |-> Field(entries[i], "description"),
                      is_suggestion |-> Bool(TRUE)]])

\* analysisResult.quote_node_links.map(l => ...).filter(Boolean)
LinksToInsert(entries, quoteTempIdToDbId, nodeTempIdToDbId, user_id) ==
    FilterBoolean(
        [i \in 1..Len(entries) |->
            LET dbQuoteId == Lookup(quoteTempIdToDbId, Field(entries[i], "quote_id"))
                dbNodeId  == Lookup(nodeTempIdToDbId, Field(entries[i], "node_id"))
            IN  IF ~Truthy(dbQuoteId) \/ ~Truthy(dbNodeId)
                THEN Null
                ELSE [quote_id |-> dbQuoteId,
                      node_id  |-> dbNodeId,
                      type     |-> Field(entries[i], "type"),
                      user_id  |-> user_id]])

\* NewIds that numbers the rows of an insert from 1, whatever the table holds
NewIdsPerBatch(rows, table, name) ==
    [i \in 1..Len(rows) |->
        CASE name = "quotes" -> quotesId(i)
          [] name = "nodes"  -> nodesId(i)
          [] name = "edges"  -> edgesId(i)
          [] name = "quote_node_links" -> linksId(i)]

\* gen_random_uuid() for each row of an insert into the table of that name
NewIds(rows, table, name) ==
    [i \in 1..Len(rows) |->
        CASE name = "quotes" -> quotesId(Len(table) + i)
          [] name = "nodes"  -> nodesId(Len(table) + i)
          [] name = "edges"  -> edgesId(Len(table) + i)
          [] name = "quote_node_links" -> linksId(Len(table) + i)]

\* The rows the storage layer keeps for an insert: each row of the insert with
\* its generated id, the column defaults of the schema for what the insert left
\* out, and the run that wrote it.
Stored(rows, ids, defaults, r) ==
    [i \in 1..Len(rows) |->
        [id |-> ids[i], by |-> r] @@ Serialized(rows[i]) @@ defaults]

ReviewDefaults == [is_suggestion |-> Bool(FALSE), reviewed_at |-> Null, reviewed_by |-> Null]

\* AnalysisSaveQuotes that throws the error of the insert
AnalysisSaveQuotesThrowing(r, storageError) ==
    /\ analysis[r].pc = "saveQuotes"
    /\ LET a    == analysis[r]
           body == a.request.body
       IN  IF ~HasArray(a.analysisResult, "quotes")
           THEN /\ ~storageError
                /\ analysis' = [analysis EXCEPT ![r].pc = "saveNodes"]
                /\ UNCHANGED quotes
           ELSE LET entries        == Elements(a.analysisResult, "quotes")
                    quotesToInsert == QuotesToInsert(entries, Field(body, "raw_data_id"),
                                                     Field(body, "user_id"))
                    insertedQuotes == Stored(quotesToInsert, NewIds(quotesToInsert, quotes, "quotes"),
                                             ReviewDefaults, r)
                IN  IF \/ storageError
                       \/ UnknownColumn(quotesToInsert, quotesColumns)
                       \/ NotNullViolated(quotesToInsert, {"raw_data_id", "user_id", "text"})
                    THEN /\ analysis' = [analysis EXCEPT ![r].pc = "done",
                                             ![r].logged = @ \cup {"quotes"},
                                             ![r].response = AnalysisFailed("insertQuotesError")]
                         /\ UNCHANGED quotes
                    ELSE /\ quotes' = Inserted(quotes, insertedQuotes)
                         /\ analysis' = [analysis EXCEPT ![r].pc = "saveNodes",
                                ![r].quoteTempIdToDbId =
                                    MapTempIds(EmptyMap, entries, insertedQuotes, 0)]
    /\ UNCHANGED <<sources, raw_data, nodes, edges, quote_node_links,
                   env, upload, llmCalls, now>>

\* Save quotes
AnalysisSaveQuotes(r, storageError) ==
    /\ analysis[r].pc = "saveQuotes"
    /\ LET a    == analysis[r]
           body == a.request.body
       IN  IF ~HasArray(a.analysisResult, "quotes")
           THEN /\ ~storageError
                /\ analysis' = [analysis EXCEPT ![r].pc = "saveNodes"]
                /\ UNCHANGED quotes
           ELSE LET entries        == Elements(a.analysisResult, "quotes")
                    quotesToInsert == QuotesToInsert(entries, Field(body, "raw_data_id"),
                                                     Field(body, "user_id"))
                    insertedQuotes == Stored(quotesToInsert, NewIds(quotesToInsert, quotes, "quotes"),
                                             ReviewDefaults, r)
                IN  IF \/ storageError
                       \/ UnknownColumn(quotesToInsert, quotesColumns)
                       \/ NotNullViolated(quotesToInsert, {"raw_data_id", "user_id", "text"})
                    THEN /\ analysis' = [analysis EXCEPT ![r].pc = "saveNodes",
                                             ![r].logged = @ \cup {"quotes"}]
                         /\ UNCHANGED quotes
                    ELSE /\ quotes' = Inserted(quotes, insertedQuotes)
                         /\ analysis' = [analysis EXCEPT ![r].pc = "saveNodes",
                                ![r].quoteTempIdToDbId =
                                    MapTempIds(EmptyMap, entries, insertedQuotes, 0)]
    /\ UNCHANGED <<sources, raw_data, nodes, edges, quote_node_links,
                   env, upload, llmCalls, now>>

\* AnalysisSaveNodes that throws the error of the insert
AnalysisSaveNodesThrowing(r, storageError) ==
    /\ analysis[r].pc = "saveNodes"
    /\ LET a    == analysis[r]
           body == a.request.body
       IN  IF ~HasArray(a.analysisResult, "nodes")
           THEN /\ ~storageError
                /\ analysis' = [analysis EXCEPT ![r].pc = "saveEdges"]
                /\ UNCHANGED nodes
           ELSE LET entries       == Elements(a.analysisResult, "nodes")
                    nodesToInsert == NodesToInsert(entries, Field(body, "user_id"))
                    insertedNodes == Stored(nodesToInsert, NewIds(nodesToInsert, nodes, "nodes"),
                                            ReviewDefaults, r)
                IN  IF \/ storageError
                       \/ UnknownColumn(nodesToInsert, nodesColumns)
                       \/ NotNullViolated(nodesToInsert, {"user_id", "type", "label"})
                    THEN /\ analysis' = [analysis EXCEPT ![r].pc = "done",
                                             ![r].logged = @ \cup {"nodes"},
                                             ![r].response = AnalysisFailed("insertNodesError")]
                         /\ UNCHANGED nodes
                    ELSE /\ nodes' = Inserted(nodes, insertedNodes)
                         /\ analysis' = [analysis EXCEPT ![r].pc = "saveEdges",
                                ![r].nodeTempIdToDbId =
                                    MapTempIds(EmptyMap, entries, insertedNodes, 0)]
    /\ UNCHANGED <<sources, raw_data, quotes, edges, quote_node_links,
                   env, upload, llmCalls, now>>

\* Save nodes
AnalysisSaveNodes(r, storageError) ==
    /\ analysis[r].pc = "saveNodes"
    /\ LET a    == analysis[r]
           body == a.request.body
       IN  IF ~HasArray(a.analysisResult, "nodes")
           THEN /\ ~storageError
                /\ analysis' = [analysis EXCEPT ![r].pc = "saveEdges"]
                /\ UNCHANGED nodes
           ELSE LET entries       == Elements(a.analysisResult, "nodes")
                    nodesToInsert == NodesToInsert(entries, Field(body, "user_id"))
                    insertedNodes == Stored(nodesToInsert, NewIds(nodesToInsert, nodes, "nodes"),
                                            ReviewDefaults, r)
                IN  IF \/ storageError
                       \/ UnknownColumn(nodesToInsert, nodesColumns)
                       \/ NotNullViolated(nodesToInsert, {"user_id", "type", "label"})
                    THEN /\ analysis' = [analysis EXCEPT ![r].pc = "saveEdges",
                                             ![r].logged = @ \cup {"nodes"}]
                         /\ UNCHANGED nodes
                    ELSE /\ nodes' = Inserted(nodes, insertedNodes)
                         /\ analysis' = [analysis EXCEPT ![r].pc = "saveEdges",
                                ![r].nodeTempIdToDbId =
                                    MapTempIds(EmptyMap, entries, insertedNodes, 0)]
    /\ UNCHANGED <<sources, raw_data, quotes, edges, quote_node_links,
                   env, upload, llmCalls, now>>

\* AnalysisSaveEdges that does not wait for the nodes insert
AnalysisSaveEdgesEarly(r, storageError) ==
    /\ analysis[r].pc \in {"saveNodes", "saveEdges"}
    /\ LET a    == analysis[r]
           body == a.request.body
           edgesToInsert ==
               IF HasArray(a.analysisResult, "edges")
               THEN EdgesToInsert(Elements(a.analysisResult, "edges"),
                                  a.nodeTempIdToDbId, Field(body, "user_id"))
               ELSE <<>>
       IN  IF Len(edgesToInsert) = 0
           THEN /\ ~storageError
                /\ analysis' = [analysis EXCEPT ![r].pc = "saveLinks"]
                /\ UNCHANGED edges
           ELSE IF \/ storageError
                   \/ UnknownColumn(edgesToInsert, edgesColumns)
                   \/ NotNullViolated(edgesToInsert,
                                      {"user_id", "from_node_id", "to_node_id"})
           THEN /\ analysis' = [analysis EXCEPT ![r].pc = "saveLinks",
                                    ![r].logged = @ \cup {"edges"}]
                /\ UNCHANGED edges
           ELSE /\ edges' = Inserted(edges,
                                Stored(edgesToInsert, NewIds(edgesToInsert, edges, "edges"), ReviewDefaults, r))
                /\ analysis' = [analysis EXCEPT ![r].pc = "saveLinks"]
    /\ UNCHANGED <<sources, raw_data, quotes, nodes, quote_node_links,
                   env, upload, llmCalls, now>>

\* Save edges
AnalysisSaveEdges(r, storageError) ==
    /\ analysis[r].pc = "saveEdges"
    /\ LET a    == analysis[r]
           body == a.request.body
           edgesToInsert ==
               IF HasArray(a.analysisResult, "edges")
               THEN EdgesToInsert(Elements(a.analysisResult, "edges"),
                                  a.nodeTempIdToDbId, Field(body, "user_id"))
               ELSE <<>>
       IN  IF Len(edgesToInsert) = 0
           THEN /\ ~storageError
                /\ analysis' = [analysis EXCEPT ![r].pc = "saveLinks"]
                /\ UNCHANGED edges
           ELSE IF \/ storageError
                   \/ UnknownColumn(edgesToInsert, edgesColumns)
                   \/ NotNullViolated(edgesToInsert,
                                      {"user_id", "from_node_id", "to_node_id"})
           THEN /\ analysis' = [analysis EXCEPT ![r].pc = "saveLinks",
                                    ![r].logged = @ \cup {"edges"}]
                /\ UNCHANGED edges
           ELSE /\ edges' = Inserted(edges,
                                Stored(edgesToInsert, NewIds(edgesToInsert, edges, "edges"), ReviewDefaults, r))
                /\ analysis' = [analysis EXCEPT ![r].pc = "saveLinks"]
    /\ UNCHANGED <<sources, raw_data, quotes, nodes, quote_node_links,
                   env, upload, llmCalls, now>>

\* AnalysisSaveLinks that throws the error of the insert
AnalysisSaveLinksThrowing(r, storageError) ==
    /\ analysis[r].pc = "saveLinks"
    /\ LET a    == analysis[r]
           body == a.request.body
           linksToInsert ==
               IF HasArray(a.analysisResult, "quote_node_links")
               THEN LinksToInsert(Elements(a.analysisResult, "quote_node_links"),
                                  a.quoteTempIdToDbId, a.nodeTempIdToDbId,
                                  Field(body, "user_id"))
               ELSE <<>>
       IN  IF Len(linksToInsert) = 0
           THEN /\ ~storageError
                /\ analysis' = [analysis EXCEPT ![r].pc = "update"]
                /\ UNCHANGED quote_node_links
           ELSE IF \/ storageError
                   \/ UnknownColumn(linksToInsert, quote_node_linksColumns)
                   \/ NotNullViolated(linksToInsert, {"quote_id", "node_id", "user_id"})
                   \/ UniqueViolated(linksToInsert)
           THEN /\ analysis' = [analysis EXCEPT ![r].pc = "done",
                                    ![r].logged = @ \cup {"quote_node_links"},
                                    ![r].response = AnalysisFailed("insertLinksError")]
                /\ UNCHANGED quote_node_links
           ELSE /\ quote_node_links' =
                       Inserted(quote_node_links,
                                Stored(linksToInsert, NewIds(linksToInsert, quote_node_links, "quote_node_links"),
                                       ReviewDefaults, r))
                /\ analysis' = [analysis EXCEPT ![r].pc = "update"]
    /\ UNCHANGED <<sources, raw_data, quotes, nodes, edges,
                   env, upload, llmCalls, now>>

\* Save quote_node_links
AnalysisSaveLinks(r, storageError) ==
    /\ analysis[r].pc = "saveLinks"
    /\ LET a    == analysis[r]
           body == a.request.body
           linksToInsert ==
               IF HasArray(a.analysisResult, "quote_node_links")
               THEN LinksToInsert(Elements(a.analysisResult, "quote_node_links"),
                                  a.quoteTempIdToDbId, a.nodeTempIdToDbId,
                                  Field(body, "user_id"))
               ELSE <<>>
       IN  IF Len(linksToInsert) = 0
           THEN /\ ~storageError
                /\ analysis' = [analysis EXCEPT ![r].pc = "update"]
                /\ UNCHANGED quote_node_links
           ELSE IF \/ storageError
                   \/ UnknownColumn(linksToInsert, quote_node_linksColumns)
                   \/ NotNullViolated(linksToInsert, {"quote_id", "node_id", "user_id"})
                   \/ UniqueViolated(linksToInsert)
           THEN /\ analysis' = [analysis EXCEPT ![r].pc = "update",
                                    ![r].logged = @ \cup {"quote_node_links"}]
                /\ UNCHANGED quote_node_links
           ELSE /\ quote_node_links' =
                       Inserted(quote_node_links,
                                Stored(linksToInsert, NewIds(linksToInsert, quote_node_links, "quote_node_links"),
                                       ReviewDefaults, r))
                /\ analysis' = [analysis EXCEPT ![r].pc = "update"]
    /\ UNCHANGED <<sources, raw_data, quotes, nodes, edges,
                   env, upload, llmCalls, now>>

\* UpdateProcessedAt that leaves a row alone once it is stamped
UpdateProcessedAtOnce(table, raw_data_id, processed_at) ==
    [i \in 1..Len(table) |->
        IF table[i].id = raw_data_id /\ table[i].processed_at = Null
        THEN [table[i] EXCEPT !.processed_at = processed_at]
        ELSE table[i]]

\* .from('raw_data').update({ processed_at }).eq('id', raw_data_id)
UpdateProcessedAt(table, raw_data_id, processed_at) ==
    [i \in 1..Len(table) |->
        IF table[i].id = raw_data_id
        THEN [table[i] EXCEPT !.processed_at = processed_at]
        ELSE table[i]]

\* 4. Update raw_data with processed_at timestamp, 5. Success response
AnalysisUpdate(r, updateRawDataError) ==
    /\ analysis[r].pc = "update"
    /\ now' = now + 1
    /\ LET raw_data_id == Field(analysis[r].request.body, "raw_data_id") IN
       IF updateRawDataError
       THEN /\ analysis' = [analysis EXCEPT ![r].pc = "done",
                                ![r].logged = @ \cup {"raw_data"},
                                ![r].response = AnalysisCompleted(raw_data_id)]
            /\ UNCHANGED raw_data
       ELSE /\ raw_data' = UpdateProcessedAt(raw_data, raw_data_id, Timestamp(now'))
            /\ analysis' = [analysis EXCEPT ![r].pc = "done",
                                ![r].response = AnalysisCompleted(raw_data_id)]
    /\ UNCHANGED <<sources, graph, env, upload, llmCalls>>

-----------------------------------------------------------------------------
(* upload-data/index.ts, continued: the analysis is invoked and awaited    *)

\* supabase.functions.invoke resolves { data, error }: error is set when the
\* function answered with a status outside 2xx.
InvokeError(response) ==
    IF Ok(response) THEN Null ELSE Str(<<"FunctionsHttpError">>)

\* 3. Trigger analysis.  Either the request reaches process-ai-analysis, whose
\* handler then runs up to its first await, or the invocation throws and the
\* handler answers at once.
UploadInvoke(u, invokeErr) ==
    /\ upload[u].pc = "invoke"
    /\ IF invokeErr
       THEN /\ upload' = [upload EXCEPT ![u].pc = "done",
                              ![u].response =
                                  UploadResponse(upload[u].rawData, upload[u].source,
                                                 Str(<<"invokeErr">>))]
            /\ UNCHANGED analysis
       ELSE /\ analysis[u].pc = "idle"
            /\ analysis' = [analysis EXCEPT ![u] =
                   AnalysisReceived(
                       [method |-> "POST",
                        body   |-> JsonBody(Obj(
                            [raw_data_id |-> upload[u].rawData.id,
                             user_id     |-> UploadUserId(upload[u].request),
                             user_ai_key |-> BodyField(upload[u].request,
                                                       "user_ai_key")]))])]
            /\ upload' = [upload EXCEPT ![u].pc = "awaitAnalysis"]
    /\ UNCHANGED <<tables, env, llmCalls, now>>

\* UploadInvokeReturn that invokes the analysis again when it failed
UploadInvokeReturnRetrying(u) ==
    /\ upload[u].pc = "awaitAnalysis"
    /\ analysis[u].pc = "done"
    /\ IF Ok(analysis[u].response)
       THEN /\ upload' = [upload EXCEPT ![u].pc = "done",
                              ![u].response =
                                  UploadResponse(upload[u].rawData, upload[u].source, Null)]
            /\ UNCHANGED analysis
       ELSE /\ analysis' = [analysis EXCEPT ![u] = AnalysisReceived(analysis[u].request)]
            /\ UNCHANGED upload
    /\ UNCHANGED <<tables, env, llmCalls, now>>

\* UploadInvokeReturn that does not wait for the analysis to answer
UploadInvokeReturnNotAwaited(u) ==
    /\ upload[u].pc = "awaitAnalysis"
    /\ upload' = [upload EXCEPT ![u].pc = "done",
                      ![u].response =
                          UploadResponse(upload[u].rawData, upload[u].source, Null)]
    /\ UNCHANGED <<tables, env, analysis, llmCalls, now>>

\* The invocation resolves; 4. Structured response
UploadInvokeReturn(u) ==
    /\ upload[u].pc = "awaitAnalysis"
    /\ analysis[u].pc = "done"
    /\ upload' = [upload EXCEPT ![u].pc = "done",
                      ![u].response =
                          UploadResponse(upload[u].rawData, upload[u].source,
                                         InvokeError(analysis[u].response))]
    /\ UNCHANGED <<tables, env, analysis, llmCalls, now>>

\* A request sent to process-ai-analysis by a caller other than upload-data
AnalysisReceive(r, request) ==
    /\ r \notin DOMAIN upload
    /\ analysis[r].pc = "idle"
    /\ analysis' = [analysis EXCEPT ![r] = AnalysisReceived(request)]
    /\ UNCHANGED <<tables, env, upload, llmCalls, now>>

-----------------------------------------------------------------------------
(* What upload-data passes to logDebug while it validates a request        *)

UploadLogged(request) ==
    LET body == request.body IN
    IF request.method # "POST"
    THEN {Str(<<request.method>>)}
    ELSE IF body = InvalidJson
    THEN {Str(<<"SyntaxError">>)}
    ELSE IF \/ ~Truthy(body)
            \/ TypeOf(Field(body, "text_content")) # "string"
            \/ TypeOf(Field(body, "source_metadata")) # "object"
    THEN {body}
    ELSE IF ~Truthy(Field(body, "text_content")) \/ ~Truthy(UploadUserId(request))
    THEN {Obj([text_content |-> Field(body, "text_content"),
               user_id      |-> UploadUserId(request)])}
    ELSE {}

-----------------------------------------------------------------------------
(* The /upload route: POST                                                 *)

\* const { text_content, source_type, source_url, user_ai_key } = body || {}
RouteField(body, f) == Field(OrElse(body, Obj([x \in {} |-> Null])), f)

\* RouteValidation without the session check
RouteValidationNoSession(user, body) ==
    IF body = InvalidJson
    THEN Response(400, Obj([error |-> <<"Invalid JSON body">>,
                            debug |-> Str(<<"SyntaxError">>)]))
    ELSE IF ~Truthy(RouteField(body, "text_content"))
    THEN Response(400, Obj([error |-> <<"Missing required text_content">>]))
    ELSE NoResponse

\* The checks made before upload-data is called: the response of a rejected
\* request, NoResponse for a request that passes them.  user is the user of
\* the session, null when there is none.
RouteValidation(user, body) ==
    IF ~Truthy(user)
    THEN Response(401, Obj([error |-> <<"Not authenticated">>,
                            debug |-> Str(<<"No user session">>)]))
    ELSE IF body = InvalidJson
    THEN Response(400, Obj([error |-> <<"Invalid JSON body">>,
                            debug |-> Str(<<"SyntaxError">>)]))
    ELSE IF ~Truthy(RouteField(body, "text_content"))
    THEN Response(400, Obj([error |-> <<"Missing required text_content">>]))
    ELSE NoResponse

\* What the route passes to logDebug before upload-data is called
RouteLogged(user, body) ==
    IF ~Truthy(user)
    THEN {Str(<<"No user session">>)}
    ELSE IF body = InvalidJson
    THEN {Str(<<"SyntaxError">>)}
    ELSE IF ~Truthy(RouteField(body, "text_content"))
    THEN {body}
    ELSE {}

\* The request the route sends to upload-data
RouteForward(user, body) ==
    [method |-> "POST",
     body   |-> JsonBody(Obj([
         text_content    |-> RouteField(body, "text_content"),
         source_metadata |-> JsonBody(Obj([
             user_id |-> user,
             type    |-> OrElse(RouteField(body, "source_type"), Str(<<"m">>)),
             url     |-> RouteField(body, "source_url")])),
         user_ai_key     |-> RouteField(body, "user_ai_key")]))]

\* The response of the route once upload-data has answered with edgeRes;
\* the properties of edgeData are spread after message and before debug.
RouteResponse(edgeRes) ==
    IF ~Ok(edgeRes)
    THEN Response(500, Obj([error |-> edgeRes.body.error, debug |-> edgeRes.body]))
    ELSE Response(200,
             [f \in DOMAIN edgeRes.body \cup {"message", "debug"} |->
                 CASE f = "debug" -> Obj([elapsed_ms |-> Num(0)])
                   [] f # "debug" /\ f \in DOMAIN edgeRes.body -> edgeRes.body[f]
                   [] OTHER -> "Upload successful"])

\* A request arrives at the route; one that passes its checks is sent on to
\* upload-data, which runs up to its first insert.
RouteReceive(u, user, body) ==
    /\ upload[u].pc = "idle"
    /\ LET rejected == RouteValidation(user, body)
           route    == [used |-> TRUE, user |-> user, body |-> body, response |-> rejected]
           request  == RouteForward(user, body)
       IN  upload' = [upload EXCEPT ![u] =
               IF rejected # NoResponse
               THEN [@ EXCEPT !.route = route, !.pc = "rejected"]
               ELSE IF UploadValidation(request) # NoResponse
               THEN [@ EXCEPT !.route = route, !.request = request, !.pc = "done",
                              !.response = UploadValidation(request)]
               ELSE [@ EXCEPT !.route = route, !.request = request, !.pc = "saveSource"]]
    /\ UNCHANGED <<tables, env, analysis, llmCalls, now>>

\* upload-data has answered; the route answers its caller
RouteReturn(u) ==
    /\ upload[u].pc = "done"
    /\ upload[u].route.used
    /\ upload[u].route.response = NoResponse
    /\ upload' = [upload EXCEPT ![u].route.response = RouteResponse(upload[u].response)]
    /\ UNCHANGED <<tables, env, analysis, llmCalls, now>>

-----------------------------------------------------------------------------
(* The environment: who calls, with what, and what the provider answers    *)

MaxKeyLen == 2      \* longest credential string tried
MaxLen    == 2      \* longest array of an extraction tried

\* All sequences over S of length at most n
RECURSIVE SeqsUpTo(_, _)
SeqsUpTo(S, n) ==
    IF n = 0 THEN {<<>>}
    ELSE LET shorter == SeqsUpTo(S, n - 1) IN
         shorter \cup {Append(q, x) : q \in shorter, x \in S}

Owners == {Str(<<"a">>), Str(<<"b">>)}
Texts  == {Str(<<"x">>), Str(<<"y">>)}

\* What a caller may send as user_ai_key: nothing, a value that is no string,
\* or any string of blanks and key characters
UserAiKeys ==
    {Undefined, Num(7)} \cup {Str(k) : k \in SeqsUpTo({" ", "k"}, MaxKeyLen)}

\* What the deployment may hold in its two secrets
OpenrouterApiKeys == {Undefined, Str(<<"o">>)}
GeminiApiKeys     == {Undefined, Str(<<"g">>)}

\* The source_metadata values a caller may send
SourceMetadatas ==
    {Undefined, Null, Str(<<"m">>)}
    \cup {Obj([user_id |-> o]) : o \in {Undefined, Str(<<>>)} \cup Owners}
    \cup {Obj([user_id |-> o, type |-> Str(<<"w">>), url |-> Str(<<"h">>)]) : o \in Owners}

\* Every request a caller may send to upload-data
UploadRequests ==
    {[method |-> "GET", body |-> Undefined]}
    \cup {[method |-> "POST", body |-> b] : b \in {InvalidJson, Null}}
    \cup {[method |-> "POST",
           body   |-> JsonBody(Obj([text_content |-> text, source_metadata |-> meta,
                                    user_ai_key |-> key]))] :
            text \in {Undefined, Str(<<>>), Num(1)} \cup Texts,
            meta \in SourceMetadatas,
            key  \in UserAiKeys}

\* One well-formed request, for the runs that study what follows the upload
PlainUploadRequests ==
    {[method |-> "POST",
      body   |-> Obj([text_content    |-> Str(<<"x">>),
                      source_metadata |-> Obj([user_id |-> Str(<<"a">>)]),
                      user_ai_key     |-> Str(<<"k">>)])]}

\* The entries of an extraction
QuoteEntry(id) ==
    JsonBody(Obj([id |-> id, text |-> Str(<<"q">>)]))
NodeEntry(id) ==
    JsonBody(Obj([id |-> id, type |-> Str(<<"pain">>), label |-> Str(<<"l">>)]))
EdgeEntry(from, to) ==
    Obj([from_node_id |-> from, to_node_id |-> to, type |-> Str(<<"causes">>)])
LinkEntry(quote, node) ==
    Obj([quote_id |-> quote, node_id |-> node, type |-> Str(<<"supports">>)])

\* The extraction-local ids an entry may carry (none, or 1), and the pairs of
\* ids an edge or a link may name: 0 and 1 can be keys of a mapping, 2 is
\* none while no array is longer than two.
TempIds  == {Undefined, Num(1)}
RefPairs ==
    {<<Num(0), Num(1)>>, <<Num(1), Num(0)>>, <<Num(1), Num(1)>>,
     <<Num(1), Num(2)>>, <<Num(2), Num(1)>>}

QuoteArrays == {Array([i \in 1..Len(ids) |-> QuoteEntry(ids[i])]) : ids \in SeqsUpTo(TempIds, MaxLen)}
NodeArrays  == {Array([i \in 1..Len(ids) |-> NodeEntry(ids[i])]) : ids \in SeqsUpTo(TempIds, MaxLen)}
EdgeArrays  ==
    {Array([i \in 1..Len(ps) |-> EdgeEntry(ps[i][1], ps[i][2])]) :
        ps \in SeqsUpTo(RefPairs, MaxLen)}
LinkArrays  ==
    {Array([i \in 1..Len(ps) |-> LinkEntry(ps[i][1], ps[i][2])]) :
        ps \in SeqsUpTo(RefPairs, MaxLen)}

\* The end-to-end fixture of the specification and three more results
EndToEndResult ==
    Obj([quotes |-> Array(<<QuoteEntry(Num(1))>>),
         nodes  |-> Array(<<NodeEntry(Num(1))>>),
         edges  |-> Array(<<>>),
         quote_node_links |-> Array(<<LinkEntry(Num(1), Num(1))>>)])
TwoNodeResult ==
    Obj([quotes |-> Array(<<QuoteEntry(Num(1))>>),
         nodes  |-> Array(<<NodeEntry(Num(1)), NodeEntry(Num(2))>>),
         edges  |-> Array(<<EdgeEntry(Num(1), Num(2)), EdgeEntry(Num(1), Num(3))>>),
         quote_node_links |-> Array(<<>>)])
NoArrayResult ==
    Obj([quotes |-> Str(<<"q">>), nodes |-> Obj([id |-> Num(1)])])

FewResults == {EndToEndResult, TwoNodeResult, NoArrayResult, Obj([x \in {} |-> Null])}

\* Results that exercise the node mapping through edges, and both mappings
\* through links
EdgeResults ==
    {Obj([nodes |-> ns, edges |-> es]) : ns \in NodeArrays, es \in EdgeArrays}
LinkResults ==
    {Obj([quotes |-> qs, nodes |-> ns, quote_node_links |-> ls]) :
        qs \in QuoteArrays, ns \in {Array(<<NodeEntry(Num(1))>>),
                                    Array(<<NodeEntry(Undefined), NodeEntry(Num(1))>>)},
        ls \in LinkArrays}

\* What completion() may resolve to as message.content
Contents(results) ==
    {Null, Str(<<>>), JsonText(InvalidJson), JsonText(Null)}
    \cup {JsonText(v) : v \in results}

FewContents   == Contents(FewResults)
GraphContents == Contents(EdgeResults \cup LinkResults)

-----------------------------------------------------------------------------
(* Specifications                                                          *)

InitWith(uploads, direct, openrouters, geminis) ==
    /\ sources = <<>> /\ raw_data = <<>>
    /\ quotes = <<>> /\ nodes = <<>> /\ edges = <<>> /\ quote_node_links = <<>>
    /\ openrouterApiKey \in openrouters
    /\ geminiApiKey \in geminis
    /\ upload = [u \in uploads |-> IdleUpload]
    /\ analysis = [r \in uploads \cup direct |-> IdleAnalysis]
    /\ llmCalls = <<>>
    /\ now = 0

UploadNext(uploads, requests) ==
    \E u \in uploads :
        \/ \E request \in requests : UploadReceive(u, request)
        \/ \E sourceError \in BOOLEAN : UploadSaveSource(u, sourceError)
        \/ \E rawDataError \in BOOLEAN : UploadSaveText(u, rawDataError)
        \/ \E invokeErr \in BOOLEAN : UploadInvoke(u, invokeErr)
        \/ UploadInvokeReturn(u)

AnalysisNext(runs, contents) ==
    \E r \in runs :
        \/ \E fetchError \in BOOLEAN : AnalysisFetch(r, fetchError)
        \/ /\ analysis[r].pc = "completion"
           /\ \E llmThrows \in BOOLEAN, content \in contents :
                 /\ llmThrows => content = Null
                 /\ AnalysisCompletion(r, llmThrows, content)
        \/ \E storageError \in BOOLEAN : AnalysisSaveQuotes(r, storageError)
        \/ \E storageError \in BOOLEAN : AnalysisSaveNodes(r, storageError)
        \/ \E storageError \in BOOLEAN : AnalysisSaveEdges(r, storageError)
        \/ \E storageError \in BOOLEAN : AnalysisSaveLinks(r, storageError)
        \/ \E updateRawDataError \in BOOLEAN : AnalysisUpdate(r, updateRawDataError)

\* One submission with every request a caller may send, under every
\* configuration of the fallback secrets
Init == InitWith({"u1"}, {}, OpenrouterApiKeys, GeminiApiKeys)
Next ==
    \/ UploadNext({"u1"}, UploadRequests)
    \/ AnalysisNext({"u1"}, FewContents)
Spec == Init /\ [][Next]_vars

\* One well-formed submission whose analysis may return any extraction
InitGraph == InitWith({"u1"}, {}, {Str(<<"o">>)}, {Undefined})
NextGraph ==
    \/ UploadNext({"u1"}, PlainUploadRequests)
    \/ AnalysisNext({"u1"}, GraphContents)
SpecGraph == InitGraph /\ [][NextGraph]_vars

\* What a signed-in or anonymous caller may send to the /upload route: a
\* session or none, and a body that may name an owner of its own
Sessions == {Null, Str(<<"a">>)}
RouteBodies ==
    {InvalidJson, Null}
    \cup {JsonBody(Obj([text_content |-> text, source_type |-> type,
                        user_ai_key |-> key, user_id |-> o,
                        source_metadata |-> meta])) :
            text \in {Undefined, Num(1), Str(<<"x">>)},
            type \in {Undefined, Str(<<"w">>)},
            key  \in {Undefined, Str(<<" ">>), Str(<<"k">>)},
            o    \in {Undefined, Str(<<"b">>)},
            meta \in {Undefined, Obj([user_id |-> Str(<<"b">>)])}}

\* The requests sent to upload-data without passing through the route, each
\* with the user its Authorization header identifies, which the handler
\* never reads
StraightRequests ==
    {[method |-> "POST", authorization |-> Str(<<"a">>),
      body   |-> JsonBody(Obj([text_content    |-> text,
                               source_metadata |-> Obj([user_id |-> o]),
                               user_ai_key     |-> key]))] :
        text \in {Num(1), Str(<<"x">>)}, o \in Owners, key \in {Undefined, Str(<<"k">>)}}

RouteNext(uploads, sessions, bodies) ==
    \E u \in uploads :
        \/ \E user \in sessions, body \in bodies : RouteReceive(u, user, body)
        \/ RouteReturn(u)

\* One submission, through the /upload route or straight to upload-data
InitRoute == InitWith({"u1"}, {}, {Str(<<"o">>)}, {Undefined})
NextRoute ==
    \/ RouteNext({"u1"}, Sessions, RouteBodies)
    \/ UploadNext({"u1"}, StraightRequests)
    \/ AnalysisNext({"u1"}, Contents({EndToEndResult}))
SpecRoute == InitRoute /\ [][NextRoute]_vars

\* The run is waiting for completion() to return or throw
Waiting(r) == analysis[r].pc = "completion"

\* One submission when every call to storage and every invocation
\* returns, while nothing bounds the wait for the provider: no option of
\* litellmParams and no timer ends the await of completion()
SpecStorageReturns ==
    InitRoute /\ [][NextRoute]_vars /\ WF_vars(NextRoute /\ \A r \in DOMAIN analysis : ~Waiting(r))

\* The same submission when the provider returns or throws as well
SpecAllReturn == InitRoute /\ [][NextRoute]_vars /\ WF_vars(NextRoute)

\* One well-formed submission, then requests sent straight to
\* process-ai-analysis once upload-data has answered
DirectRequests ==
    {[method |-> "GET", body |-> Undefined]}
    \cup {[method |-> "POST", body |-> b] : b \in {InvalidJson, Null}}
    \cup {[method |-> "POST",
           body   |-> JsonBody(Obj([raw_data_id |-> id, user_id |-> o, user_ai_key |-> key]))] :
            id  \in {Undefined, raw_dataId(1), raw_dataId(2)},
            o   \in {Undefined} \cup Owners,
            key \in {Undefined, Str(<<"k">>)}}

RerunContents == Contents({EndToEndResult, TwoNodeResult})

DirectNext(runs, requests) ==
    \E r \in runs :
        /\ \A u \in DOMAIN upload : upload[u].pc = "done"
        /\ \E request \in requests : AnalysisReceive(r, request)

InitRerun == InitWith({"u1"}, {"d1"}, {Str(<<"o">>)}, {Undefined})
NextRerun ==
    \/ UploadNext({"u1"}, PlainUploadRequests)
    \/ AnalysisNext({"u1", "d1"}, RerunContents)
    \/ DirectNext({"d1"}, DirectRequests)
SpecRerun == InitRerun /\ [][NextRerun]_vars

\* Two submissions at once: every interleaving of the steps of two requests
\* to upload-data and of the analyses they invoke
TwoRequests ==
    {[method |-> "POST",
      body   |-> Obj([text_content    |-> text,
                      source_metadata |-> Obj([user_id |-> o, url |-> text]),
                      user_ai_key     |-> Str(<<"k">>)])] :
        text \in Texts, o \in Owners}

TwoContents == {Null, JsonText(EndToEndResult)}

InitTwo == InitWith({"u1", "u2"}, {}, {Str(<<"o">>)}, {Undefined})
NextTwo ==
    \/ UploadNext({"u1", "u2"}, TwoRequests)
    \/ AnalysisNext({"u1", "u2"}, TwoContents)
SpecTwo == InitTwo /\ [][NextTwo]_vars

\* Extractions in which an id and a position can give the same key: entries
\* with no id, the id 0 or the id 1, and one edge or one link between the
\* keys 0 and 1
PositionIds   == {Undefined, Num(0), Num(1)}
PositionPairs == {<<Num(a), Num(b)>> : a, b \in {0, 1}}
PositionNodes ==
    {Array([i \in 1..Len(ids) |-> NodeEntry(ids[i])]) : ids \in SeqsUpTo(PositionIds, MaxLen)}
PositionQuotes ==
    {Array([i \in 1..Len(ids) |-> QuoteEntry(ids[i])]) : ids \in SeqsUpTo(PositionIds, MaxLen)}
PositionResults ==
    {Obj([nodes |-> ns, edges |-> Array(<<EdgeEntry(p[1], p[2])>>)]) :
        ns \in PositionNodes, p \in PositionPairs}
    \cup {Obj([quotes |-> qs,
               nodes  |-> Array(<<NodeEntry(Undefined), NodeEntry(Undefined)>>),
               quote_node_links |-> Array(<<LinkEntry(p[1], p[2])>>)]) :
            qs \in PositionQuotes, p \in PositionPairs}

NextPositions ==
    \/ UploadNext({"u1"}, PlainUploadRequests)
    \/ AnalysisNext({"u1"}, Contents(PositionResults))
SpecPositions == InitGraph /\ [][NextPositions]_vars

\* Two submissions at once whose extractions use the same ids: a quote 1, the
\* nodes 1 and 2, an edge from 1 to 2 and a link of quote 1 to node 1
SharedIdsResult ==
    Obj([quotes |-> Array(<<QuoteEntry(Num(1))>>),
         nodes  |-> Array(<<NodeEntry(Num(1)), NodeEntry(Num(2))>>),
         edges  |-> Array(<<EdgeEntry(Num(1), Num(2))>>),
         quote_node_links |-> Array(<<LinkEntry(Num(1), Num(1))>>)])

SharedIdsRequests ==
    {request \in TwoRequests : BodyField(request, "text_content") = Str(<<"x">>)}

NextSharedIds ==
    \/ UploadNext({"u1", "u2"}, SharedIdsRequests)
    \/ AnalysisNext({"u1", "u2"}, {JsonText(SharedIdsResult)})
SpecSharedIds == InitTwo /\ [][NextSharedIds]_vars

-----------------------------------------------------------------------------
(* Vocabulary of the properties                                            *)

RowsBy(table, who) == {row \in Rows(table) : row.by = who}

\* The owner and the text a request submits
Owner(request) == Field(BodyField(request, "source_metadata"), "user_id")
Text(request)  == BodyField(request, "text_content")

\* A request with a non-empty string text_content and a non-empty owner
ValidUpload(request) ==
    /\ request.method = "POST"
    /\ request.body.t = "object"
    /\ Text(request).t = "string" /\ Text(request).v # <<>>
    /\ BodyField(request, "source_metadata").t = "object"
    /\ Owner(request).t = "string" /\ Owner(request).v # <<>>

Answered(u) == upload[u].pc = "done"
BothSaved(u) == upload[u].rawData # Undefined

\* The rows in storage that a request's own copies describe
GraphRowsBy(r) ==
    RowsBy(quotes, r) \cup RowsBy(nodes, r) \cup RowsBy(edges, r)
        \cup RowsBy(quote_node_links, r)
CallsBy(r) == {i \in 1..Len(llmCalls) : llmCalls[i].run = r}

-----------------------------------------------------------------------------
(* C1..C4: the upload-data contract                                        *)

\* C1: a request with a non-empty string text_content and a non-empty owner is
\* never rejected; once both inserts have succeeded, storage holds exactly one
\* sources row and exactly one raw_data row written by the request, both owned
\* by the request's owner, the raw_data row referencing the sources row and
\* holding the submitted text; and the response carries their two ids.
C1_OneSourceOneRawContent ==
    \A u \in DOMAIN upload :
        /\ (Answered(u) /\ ValidUpload(upload[u].request))
              => upload[u].response.status \notin {400, 405}
        /\ BothSaved(u) =>
              /\ ValidUpload(upload[u].request)
              /\ Cardinality(RowsBy(sources, u)) = 1
              /\ Cardinality(RowsBy(raw_data, u)) = 1
              /\ \A s \in RowsBy(sources, u), d \in RowsBy(raw_data, u) :
                    /\ s.user_id = Owner(upload[u].request)
                    /\ d.user_id = Owner(upload[u].request)
                    /\ d.source_id = s.id
                    /\ d.content = Text(upload[u].request)
                    /\ Answered(u) =>
                          /\ upload[u].response.status = 200
                          /\ upload[u].response.body.source_id = s.id
                          /\ upload[u].response.body.raw_data_id = d.id

C1_Witness ==
    \E u \in DOMAIN upload :
        /\ Answered(u) /\ BothSaved(u)
        /\ upload[u].response.status = 200
        /\ Owner(upload[u].request) = Str(<<"b">>)
        /\ Text(upload[u].request) = Str(<<"y">>)
        /\ \E d \in RowsBy(raw_data, u) : d.content = Str(<<"y">>)

\* C2: a request rejected at validation is answered 405 when its method is not
\* POST and 400 otherwise, and nothing has happened for it: no sources row, no
\* raw_data row, no invocation of process-ai-analysis, no LLM call.
C2_RejectedLeavesStorageUnchanged ==
    \A u \in DOMAIN upload :
        (Answered(u) /\ ~ValidUpload(upload[u].request)) =>
            /\ upload[u].response.status =
                  IF upload[u].request.method # "POST" THEN 405 ELSE 400
            /\ RowsBy(sources, u) = {}
            /\ RowsBy(raw_data, u) = {}
            /\ analysis[u].pc = "idle"
            /\ CallsBy(u) = {}
            /\ GraphRowsBy(u) = {}

C2_Witness ==
    \E u \in DOMAIN upload :
        /\ Answered(u)
        /\ upload[u].request.method = "POST"
        /\ Text(upload[u].request) = Str(<<>>)
        /\ Owner(upload[u].request) = Str(<<"a">>)
        /\ BodyField(upload[u].request, "user_ai_key") = Str(<<"k">>)
        /\ upload[u].response.status = 400
        /\ sources = <<>> /\ raw_data = <<>>

\* C3: when the invocation of the analysis fails after both rows were saved
\* (the invocation threw, or process-ai-analysis answered outside 2xx),
\* upload-data answers 200 with source_id, raw_data_id and analysis_status
\* "failed", and the two rows the request wrote are in storage as written.
AnalysisInvokeFailed(u) ==
    /\ Answered(u) /\ BothSaved(u)
    /\ \/ analysis[u].pc = "idle"
       \/ analysis[u].pc = "done" /\ ~Ok(analysis[u].response)

C3_FailedAnalysisKeepsRows ==
    \A u \in DOMAIN upload :
        AnalysisInvokeFailed(u) =>
            /\ upload[u].response.status = 200
            /\ upload[u].response.body.analysis_status = "failed"
            /\ upload[u].response.body.source_id = upload[u].source.id
            /\ upload[u].response.body.raw_data_id = upload[u].rawData.id
            /\ RowsBy(sources, u) = {upload[u].source}
            /\ RowsBy(raw_data, u) = {upload[u].rawData}

C3_Witness ==
    \E u \in DOMAIN upload :
        /\ AnalysisInvokeFailed(u)
        /\ analysis[u].pc = "done"
        /\ analysis[u].response.status = 500
        /\ CallsBy(u) # {}
        /\ upload[u].response.body.analysis_status = "failed"
        /\ Len(raw_data) = 1

Dispatched(u) == BothSaved(u) /\ analysis[u].pc # "idle"

\* C4 as stated: once the raw_data row is saved and the analysis dispatched,
\* the processed_at update is issued whatever the outcome of the analysis, so
\* that when upload-data answers the row is stamped (or the update itself
\* returned an error, which the run logs).
C4_StampedOnEveryOutcome ==
    \A u \in DOMAIN upload :
        (Answered(u) /\ Dispatched(u)) =>
            \A d \in RowsBy(raw_data, u) :
                d.processed_at # Null \/ "raw_data" \in analysis[u].logged

Finished(r) == analysis[r].pc = "done"

-----------------------------------------------------------------------------
(* C5: a second request for a processed row                                *)

\* The raw_data rows a run's request names
Named(r) ==
    {d \in Rows(raw_data) : d.id = Field(analysis[r].request.body, "raw_data_id")}

\* C5 as stated: once processed_at is set on a raw_data row, a request to
\* process-ai-analysis that names the row makes no LLM call, writes no quotes,
\* nodes, edges or quote_node_links row and leaves processed_at as it is.
C5_ProcessedOnce ==
    [][\A r \in DOMAIN analysis :
          (analysis[r].pc # "idle" /\ \E d \in Named(r) : d.processed_at # Null)
              => /\ CallsBy(r)' = CallsBy(r)
                 /\ GraphRowsBy(r)' = GraphRowsBy(r)
                 /\ raw_data' = raw_data]_vars

\* The runs that serve requests sent to process-ai-analysis after the upload
\* was answered
LaterRuns == DOMAIN analysis \ DOMAIN upload

\* C5 as amended: processed_at is not tested before an analysis. A later
\* request that names a row already stamped and passes the fetch and the key
\* selection makes an LLM call of its own, and when it answers 200 its update
\* has overwritten processed_at with the time of the later run (unless that
\* update returned an error, which leaves the earlier stamp in place).
C5_LaterRequestRunsAgain ==
    \A r \in LaterRuns :
        /\ analysis[r].pc \notin {"idle", "fetch", "done"} => Cardinality(CallsBy(r)) = 1
        /\ (Finished(r) /\ Ok(analysis[r].response)) =>
              /\ Cardinality(CallsBy(r)) = 1
              /\ \A d \in Named(r) :
                    IF "raw_data" \in analysis[r].logged
                    THEN d.processed_at \in {Null} \cup {Timestamp(t) : t \in 1..(now - 1)}
                    ELSE d.processed_at = Timestamp(now)

C5_Witness ==
    \E u \in DOMAIN upload, r \in LaterRuns :
        /\ Finished(u) /\ Ok(analysis[u].response)
        /\ Finished(r) /\ Ok(analysis[r].response)
        /\ Named(r) = RowsBy(raw_data, u)
        /\ CallsBy(u) # {} /\ CallsBy(r) # {}
        /\ RowsBy(quotes, u) # {} /\ RowsBy(quotes, r) # {}
        /\ \A d \in Named(r) : d.processed_at = Timestamp(2)

-----------------------------------------------------------------------------
(* C6, C7: the API key of the LLM call                                     *)

\* The user_ai_key sent to upload-data, and the one a run received
SuppliedKey(u) == BodyField(upload[u].request, "user_ai_key")
ReceivedKey(r) == Field(analysis[r].request.body, "user_ai_key")

NonEmptyKey(key) == key.t = "string" /\ key.v # <<>>
\* A string with a character that is not white space
NonBlankKey(key) == key.t = "string" /\ \E i \in 1..Len(key.v) : key.v[i] # " "

KeyUsed(u) ==
    /\ ReceivedKey(u) = SuppliedKey(u)
    /\ analysis[u].response # AnalysisFailed("No valid API key available for LLM call.")
    /\ \A i \in CallsBy(u) : llmCalls[i].api_key = SuppliedKey(u)

\* C6 as stated: whatever OPENROUTER_API_KEY and GEMINI_API_KEY hold, a
\* non-empty user_ai_key sent to upload-data reaches process-ai-analysis
\* unchanged and is the api_key of the run's LLM call.
C6_NonEmptyKeyUsed ==
    \A u \in DOMAIN upload :
        (Dispatched(u) /\ NonEmptyKey(SuppliedKey(u))) => KeyUsed(u)

\* C6 as amended: whatever OPENROUTER_API_KEY and GEMINI_API_KEY hold, a string
\* user_ai_key that is non-empty after trimming white space reaches
\* process-ai-analysis unchanged and is, untrimmed, the api_key of the run's
\* LLM call; the run never ends for want of a key.
C6_NonBlankKeyUsed ==
    \A u \in DOMAIN upload :
        (Dispatched(u) /\ NonBlankKey(SuppliedKey(u))) => KeyUsed(u)

C6_Witness ==
    \E u \in DOMAIN upload :
        /\ SuppliedKey(u) = Str(<<" ", "k">>)
        /\ openrouterApiKey = Str(<<"o">>) /\ geminiApiKey = Str(<<"g">>)
        /\ \E i \in CallsBy(u) : llmCalls[i].api_key = Str(<<" ", "k">>)
        /\ Finished(u) /\ Ok(analysis[u].response)

\* C7: a run that received no user_ai_key while neither OPENROUTER_API_KEY nor
\* GEMINI_API_KEY is set makes no LLM call and writes no quotes, nodes, edges
\* or quote_node_links row; once the raw text is fetched it ends with the
\* error "No valid API key available for LLM call." (status 500).
NoKeyAnywhere(r) ==
    /\ analysis[r].pc # "idle"
    /\ ReceivedKey(r) = Undefined
    /\ openrouterApiKey = Undefined /\ geminiApiKey = Undefined

C7_NoKeyNoCall ==
    \A r \in DOMAIN analysis :
        NoKeyAnywhere(r) =>
            /\ analysis[r].pc \in {"fetch", "done"}
            /\ CallsBy(r) = {}
            /\ GraphRowsBy(r) = {}
            /\ Finished(r) =>
                  analysis[r].response \in
                      {AnalysisFailed("No valid API key available for LLM call."),
                       AnalysisError("fetchError")}

C7_Witness ==
    \E r \in DOMAIN analysis :
        /\ NoKeyAnywhere(r) /\ Finished(r)
        /\ analysis[r].response = AnalysisFailed("No valid API key available for LLM call.")
        /\ llmCalls = <<>>
        /\ Len(raw_data) = 1 /\ raw_data[1].processed_at = Null

-----------------------------------------------------------------------------
(* C8..C10: edges and quote_node_links resolve to rows of the same run     *)

\* The rows of a table that a run wrote, in insertion order
RowsSeqBy(table, r) == SelectSeq(table, LAMBDA row : row.by = r)
IdsBy(table, r) == {row.id : row \in RowsBy(table, r)}

\* The entries of an array of a run's extraction, none when it is no array
EntriesOf(r, f) ==
    IF HasArray(analysis[r].analysisResult, f)
    THEN Elements(analysis[r].analysisResult, f) ELSE <<>>

\* The rows a run is about to submit to edges and to quote_node_links
EdgesBatch(r) ==
    EdgesToInsert(EntriesOf(r, "edges"), analysis[r].nodeTempIdToDbId,
                  Field(analysis[r].request.body, "user_id"))
LinksBatch(r) ==
    LinksToInsert(EntriesOf(r, "quote_node_links"), analysis[r].quoteTempIdToDbId,
                  analysis[r].nodeTempIdToDbId, Field(analysis[r].request.body, "user_id"))

\* C8: every edges row names, as from_node_id and as to_node_id, the id of a
\* nodes row that is in storage and was written by the run that wrote the
\* edge, and every quote_node_links row a quotes row and a nodes row of its
\* run; the same holds of every row a run submits to edges and to
\* quote_node_links, so that a run whose nodes (quotes) insert failed submits
\* no edge (no link) at all.
C8_ReferencesOfTheSameRun ==
    \A r \in DOMAIN analysis :
        /\ \A e \in RowsBy(edges, r) :
              e.from_node_id \in IdsBy(nodes, r) /\ e.to_node_id \in IdsBy(nodes, r)
        /\ \A l \in RowsBy(quote_node_links, r) :
              l.quote_id \in IdsBy(quotes, r) /\ l.node_id \in IdsBy(nodes, r)
        /\ analysis[r].pc = "saveEdges" =>
              \A j \in 1..Len(EdgesBatch(r)) :
                  /\ EdgesBatch(r)[j].from_node_id \in IdsBy(nodes, r)
                  /\ EdgesBatch(r)[j].to_node_id \in IdsBy(nodes, r)
        /\ analysis[r].pc = "saveLinks" =>
              \A j \in 1..Len(LinksBatch(r)) :
                  /\ LinksBatch(r)[j].quote_id \in IdsBy(quotes, r)
                  /\ LinksBatch(r)[j].node_id \in IdsBy(nodes, r)
        /\ ("nodes" \in analysis[r].logged /\ analysis[r].pc = "saveEdges")
              => EdgesBatch(r) = <<>>
        /\ ({"nodes", "quotes"} \cap analysis[r].logged # {} /\ analysis[r].pc = "saveLinks")
              => LinksBatch(r) = <<>>

C8_Witness ==
    \E u \in DOMAIN upload, r \in LaterRuns :
        /\ RowsBy(nodes, u) # {} /\ RowsBy(edges, u) # {}
        /\ RowsBy(edges, r) # {}
        /\ \A e \in RowsBy(edges, r) :
              e.from_node_id = nodesId(3) /\ e.to_node_id = nodesId(4)

\* The key under which the mapping loop files entry i of an array: its id, or
\* its position in the array (from 0) when it has none
KeyOf(entries, i) ==
    IF Field(entries[i], "id") \in {Undefined, Null}
    THEN Num(i - 1) ELSE Field(entries[i], "id")

SameKey(a, b) == PropertyKey(a) = PropertyKey(b)

\* An array of the extraction names ref, and the last position where it does
Known(entries, ref) == \E i \in 1..Len(entries) : SameKey(KeyOf(entries, i), ref)
LastIndex(entries, ref) ==
    CHOOSE i \in 1..Len(entries) :
        /\ SameKey(KeyOf(entries, i), ref)
        /\ \A j \in (i + 1)..Len(entries) : ~SameKey(KeyOf(entries, j), ref)

\* The insert of an array of the extraction went through
Past(r, pcs) == analysis[r].pc \in pcs
QuotesStored(r) ==
    /\ Past(r, {"saveNodes", "saveEdges", "saveLinks", "update", "done"})
    /\ HasArray(analysis[r].analysisResult, "quotes")
    /\ "quotes" \notin analysis[r].logged
NodesStored(r) ==
    /\ Past(r, {"saveEdges", "saveLinks", "update", "done"})
    /\ HasArray(analysis[r].analysisResult, "nodes")
    /\ "nodes" \notin analysis[r].logged
EdgesStored(r) ==
    /\ Past(r, {"saveLinks", "update", "done"})
    /\ analysis[r].analysisResult # Undefined
    /\ "edges" \notin analysis[r].logged

\* The edge entries and the link entries whose references can be resolved
ResolvableEdges(r) ==
    IF NodesStored(r)
    THEN SelectSeq(EntriesOf(r, "edges"),
                   LAMBDA e : /\ Known(EntriesOf(r, "nodes"), Field(e, "from_node_id"))
                              /\ Known(EntriesOf(r, "nodes"), Field(e, "to_node_id")))
    ELSE <<>>
ResolvableLinks(r) ==
    IF NodesStored(r) /\ QuotesStored(r)
    THEN SelectSeq(EntriesOf(r, "quote_node_links"),
                   LAMBDA l : /\ Known(EntriesOf(r, "quotes"), Field(l, "quote_id"))
                              /\ Known(EntriesOf(r, "nodes"), Field(l, "node_id")))
    ELSE <<>>

\* C9: the rows a run submits to edges are one per edge entry whose
\* from_node_id and to_node_id both name a node of the extraction that was
\* inserted, in the order of the entries; the other entries are left out
\* without an error (the run goes on and answers 200), and unless the edges
\* insert itself returns an error the rows submitted are the rows stored.  The
\* rows submitted to quote_node_links are, in the same way, one per link entry
\* whose quote_id and node_id can both be resolved.
C9_UnresolvableEntriesDropped ==
    \A r \in DOMAIN analysis :
        /\ Past(r, {"saveEdges"}) => Len(EdgesBatch(r)) = Len(ResolvableEdges(r))
        /\ EdgesStored(r) => Len(RowsSeqBy(edges, r)) = Len(ResolvableEdges(r))
        /\ Past(r, {"saveLinks"}) => Len(LinksBatch(r)) = Len(ResolvableLinks(r))
        /\ (Finished(r) /\ analysis[r].analysisResult # Undefined) =>
              Ok(analysis[r].response)

C9_Witness ==
    \E r \in DOMAIN analysis :
        /\ Finished(r) /\ Ok(analysis[r].response) /\ analysis[r].logged = {}
        /\ EntriesOf(r, "nodes") = <<NodeEntry(Num(1))>>
        /\ EntriesOf(r, "edges") = <<EdgeEntry(Num(1), Num(2)), EdgeEntry(Num(1), Num(1))>>
        /\ Len(edges) = 1
        /\ edges[1].from_node_id = nodesId(1) /\ edges[1].to_node_id = nodesId(1)

\* C10: when several entries of the nodes array carry the same id, the mapping
\* holds for that id the row inserted for the last of them in array order,
\* so every edge and every link that names the id is resolved to that row: a
\* position that depends on the extraction alone.  The same holds of the
\* quotes array and the quote_id of a link.
C10_LastDuplicateWins ==
    \A r \in DOMAIN analysis :
        /\ NodesStored(r) =>
              LET entries == EntriesOf(r, "nodes")
                  rows    == RowsSeqBy(nodes, r)
              IN  /\ Len(rows) = Len(entries)
                  /\ \A i \in 1..Len(entries) :
                        Lookup(analysis[r].nodeTempIdToDbId, KeyOf(entries, i))
                            = rows[LastIndex(entries, KeyOf(entries, i))].id
        /\ QuotesStored(r) =>
              LET entries == EntriesOf(r, "quotes")
                  rows    == RowsSeqBy(quotes, r)
              IN  /\ Len(rows) = Len(entries)
                  /\ \A i \in 1..Len(entries) :
                        Lookup(analysis[r].quoteTempIdToDbId, KeyOf(entries, i))
                            = rows[LastIndex(entries, KeyOf(entries, i))].id
        /\ (EdgesStored(r) /\ NodesStored(r)) =>
              LET rows == RowsSeqBy(edges, r)
                  from == ResolvableEdges(r)
                  to   == RowsSeqBy(nodes, r)
              IN  \A j \in 1..Len(rows) :
                     /\ rows[j].from_node_id =
                           to[LastIndex(EntriesOf(r, "nodes"), Field(from[j], "from_node_id"))].id
                     /\ rows[j].to_node_id =
                           to[LastIndex(EntriesOf(r, "nodes"), Field(from[j], "to_node_id"))].id
        /\ Past(r, {"saveLinks"}) =>
              LET rows == LinksBatch(r)
                  from == ResolvableLinks(r)
              IN  \A j \in 1..Len(rows) :
                     /\ rows[j].quote_id =
                           RowsSeqBy(quotes, r)[LastIndex(EntriesOf(r, "quotes"),
                                                          Field(from[j], "quote_id"))].id
                     /\ rows[j].node_id =
                           RowsSeqBy(nodes, r)[LastIndex(EntriesOf(r, "nodes"),
                                                         Field(from[j], "node_id"))].id

C10_Witness ==
    \E r \in DOMAIN analysis :
        /\ Finished(r) /\ analysis[r].logged = {}
        /\ EntriesOf(r, "nodes") = <<NodeEntry(Num(1)), NodeEntry(Num(1))>>
        /\ EntriesOf(r, "edges") = <<EdgeEntry(Num(1), Num(1))>>
        /\ Len(nodes) = 2 /\ Len(edges) = 1
        /\ edges[1].from_node_id = nodesId(2) /\ edges[1].to_node_id = nodesId(2)

-----------------------------------------------------------------------------
(* C11: a failed insert phase and the phases after it                      *)

\* The run parsed an extraction and entered the insert phases
Materializing(r) == analysis[r].analysisResult # Undefined

\* The edge entries whose references name entries of the nodes array
NamedEdges(r) ==
    SelectSeq(EntriesOf(r, "edges"),
              LAMBDA e : /\ Known(EntriesOf(r, "nodes"), Field(e, "from_node_id"))
                         /\ Known(EntriesOf(r, "nodes"), Field(e, "to_node_id")))

\* The raw_data row a finished run names is stamped, or its update failed
Stamped(r) ==
    \A d \in Named(r) : d.processed_at # Null \/ "raw_data" \in analysis[r].logged

\* C11 as stated: when the insert of one phase fails, the run still ends
\* with processed_at stamped and the rows of every other kind persisted: a
\* quotes row per quote entry, a nodes row per node entry and an edges row per
\* edge entry that names nodes of the extraction (quote_node_links rows are not
\* counted here).
C11_OtherKindsPersisted ==
    \A r \in DOMAIN analysis :
        (Finished(r) /\ Materializing(r)) =>
            /\ Ok(analysis[r].response) /\ Stamped(r)
            /\ "quotes" \notin analysis[r].logged =>
                  Len(RowsSeqBy(quotes, r)) = Len(EntriesOf(r, "quotes"))
            /\ "nodes" \notin analysis[r].logged =>
                  Len(RowsSeqBy(nodes, r)) = Len(EntriesOf(r, "nodes"))
            /\ "edges" \notin analysis[r].logged =>
                  Len(RowsSeqBy(edges, r)) = Len(NamedEdges(r))

\* C11 as amended: a failed insert ends no run: the phases after it run, the
\* processed_at update is issued and the run answers 200.  The quotes rows and
\* the nodes rows are persisted whatever the other inserts returned; the edges
\* rows are persisted when the nodes insert succeeded, and after a failed
\* nodes insert no edge and no link is submitted, after a failed quotes insert
\* no link.
C11_FailedPhaseEndsNoRun ==
    \A r \in DOMAIN analysis :
        /\ (Materializing(r) /\ analysis[r].logged # {}) =>
              analysis[r].pc \in {"saveNodes", "saveEdges", "saveLinks", "update", "done"}
        /\ (Finished(r) /\ Materializing(r)) =>
              /\ Ok(analysis[r].response) /\ Stamped(r)
              /\ "quotes" \notin analysis[r].logged =>
                    Len(RowsSeqBy(quotes, r)) = Len(EntriesOf(r, "quotes"))
              /\ "nodes" \notin analysis[r].logged =>
                    Len(RowsSeqBy(nodes, r)) = Len(EntriesOf(r, "nodes"))
              /\ {"nodes", "edges"} \cap analysis[r].logged = {} =>
                    Len(RowsSeqBy(edges, r)) = Len(NamedEdges(r))
              /\ "nodes" \in analysis[r].logged =>
                    /\ RowsBy(edges, r) = {} /\ RowsBy(quote_node_links, r) = {}
                    /\ "edges" \notin analysis[r].logged
              /\ "quotes" \in analysis[r].logged => RowsBy(quote_node_links, r) = {}

C11_Witness ==
    \E r \in DOMAIN analysis :
        /\ Finished(r) /\ Ok(analysis[r].response)
        /\ analysis[r].logged = {"quotes"}
        /\ analysis[r].analysisResult = TwoNodeResult
        /\ quotes = <<>> /\ Len(nodes) = 2 /\ Len(edges) = 1
        /\ \A d \in Named(r) : d.processed_at = Timestamp(1)

-----------------------------------------------------------------------------
(* C12: what the response says about the insert phases                     *)

\* The insert phases of a run whose insert returned an error
PhaseErrors(r) == analysis[r].logged \cap {"quotes", "nodes", "edges", "quote_node_links"}

\* C12: the response of process-ai-analysis tells a run in which the insert
\* of a phase failed from a run in which every insert succeeded: two finished
\* runs, one with a failed phase and one without, never answer alike.
C12_FailedPhaseDistinguishable ==
    \A r1, r2 \in DOMAIN analysis :
        ( /\ Finished(r1) /\ Materializing(r1) /\ PhaseErrors(r1) = {}
          /\ Finished(r2) /\ Materializing(r2) /\ PhaseErrors(r2) # {} )
            => analysis[r1].response # analysis[r2].response

-----------------------------------------------------------------------------
(* C13: the rows of an analysis are suggestions                            *)

Suggestion(row) ==
    /\ row.is_suggestion = Bool(TRUE)
    /\ row.reviewed_at = Null /\ row.reviewed_by = Null

\* What the storage layer keeps for the rows a run submits to quote_node_links
LinksAsStored(r) ==
    Stored(LinksBatch(r), NewIds(LinksBatch(r), quote_node_links, "quote_node_links"),
           ReviewDefaults, r)

-----------------------------------------------------------------------------
(* C14: owners                                                             *)

\* C14: every quotes, nodes and edges row a run wrote, and every row it
\* submits to quote_node_links, carries the user_id of the raw_data row the
\* run's request names, which is in storage; every quotes row references that
\* raw_data row; and every raw_data row carries the user_id of the sources
\* row it references.
C14_RowsOwnedByOwnerOfRawData ==
    /\ \A r \in DOMAIN analysis :
          /\ \A row \in GraphRowsBy(r) :
                \E d \in Named(r) : row.user_id = d.user_id
          /\ \A q \in RowsBy(quotes, r) :
                \E d \in Named(r) : q.raw_data_id = d.id
          /\ analysis[r].pc = "saveLinks" =>
                \A j \in 1..Len(LinksBatch(r)) :
                    \E d \in Named(r) : LinksBatch(r)[j].user_id = d.user_id
    /\ \A d \in Rows(raw_data) :
          \E s \in Rows(sources) : s.id = d.source_id /\ s.user_id = d.user_id

C14_Witness ==
    \E r \in LaterRuns :
        /\ Finished(r)
        /\ RowsBy(quotes, r) # {} /\ RowsBy(nodes, r) # {} /\ RowsBy(edges, r) # {}
        /\ \A row \in GraphRowsBy(r) : row.user_id = Str(<<"a">>)
        /\ \A d \in Rows(raw_data) : d.user_id = Str(<<"a">>)

-----------------------------------------------------------------------------
(* C15: the owner written is the authenticated caller                      *)

\* The identity the caller of a submission has proved: the user of the
\* session for a request to the /upload route, the user of the Authorization
\* header for a request sent straight to upload-data, null when neither
Caller(u) ==
    IF upload[u].route.used
    THEN upload[u].route.user
    ELSE IF "authorization" \in DOMAIN upload[u].request
    THEN upload[u].request.authorization
    ELSE Null

\* C15: every sources row and every raw_data row a submission wrote carries
\* as user_id the authenticated identity of its caller, whatever owner the
\* request body names.
C15_OwnerIsAuthenticatedCaller ==
    \A u \in DOMAIN upload :
        \A row \in RowsBy(sources, u) \cup RowsBy(raw_data, u) :
            row.user_id = Caller(u)

-----------------------------------------------------------------------------
(* C16, C17, C18: where the caller's credential goes                       *)

\* The characters s occur in text one after the other
Within(s, text) ==
    \E i \in 0..(Len(text) - Len(s)) : SubSeq(text, i + 1, i + Len(s)) = s

\* The value v, as JSON.stringify or console.log writes it, contains the
\* characters s.  Of the fields of a response body, error is searched piece
\* by piece; message and analysis_status are literals of the code.
RECURSIVE Mentions(_, _)
Mentions(v, s) ==
    CASE v.t = "string" -> Within(s, v.v)
      [] v.t = "array"  -> \E i \in 1..Len(v.v) : Mentions(v.v[i], s)
      [] v.t = "object" ->
            \E f \in DOMAIN v \ {"t", "message", "analysis_status"} :
                IF f = "error" THEN Within(s, v[f]) ELSE Mentions(v[f], s)
      [] OTHER -> FALSE

\* The credential a submission or a run was given, when it is one
RouteKey(u) == RouteField(upload[u].route.body, "user_ai_key")
Credentials ==
    {key \in {SuppliedKey(u) : u \in DOMAIN upload}
              \cup {RouteKey(u) : u \in DOMAIN upload}
              \cup {ReceivedKey(r) : r \in DOMAIN analysis} : NonEmptyKey(key)}

\* The bodies of the responses returned so far
ResponseBodies ==
    {upload[u].response.body : u \in DOMAIN upload}
    \cup {upload[u].route.response.body : u \in DOMAIN upload}
    \cup {analysis[r].response.body : r \in DOMAIN analysis}

\* C16: no body of a response of upload-data, process-ai-analysis or the
\* /upload route, in its error, its debug or any other field, contains a
\* credential value a request carried.
C16_NoCredentialInResponse ==
    \A key \in Credentials : \A body \in ResponseBodies : ~Mentions(body, key.v)

\* What console.error writes in the catch blocks of process-ai-analysis: the
\* message the response carries
AnalysisLogged(r) ==
    IF analysis[r].response.status = 500 THEN {analysis[r].response.body} ELSE {}

\* Everything the three handlers have written to their logs so far
LogLines ==
    UNION {IF upload[u].request.method # "" THEN UploadLogged(upload[u].request) ELSE {} :
              u \in DOMAIN upload}
    \cup UNION {IF upload[u].route.used
                THEN RouteLogged(upload[u].route.user, upload[u].route.body)
                ELSE {} : u \in DOMAIN upload}
    \cup UNION {AnalysisLogged(r) : r \in DOMAIN analysis}

\* The parts of a credential: its runs of one or more characters
Parts(key) ==
    {SubSeq(key.v, i, j) : i \in 1..Len(key.v), j \in 1..Len(key.v)} \ {<<>>}

\* C17: no line the /upload route, upload-data or process-ai-analysis writes
\* to its log contains a credential value a request carried, in full or in
\* part, the lines that log a rejected request body included.
C17_NoCredentialInLogs ==
    \A key \in Credentials : \A line \in LogLines :
        \A part \in Parts(key) : ~Mentions(line, part)

\* The columns of a stored row
Columns(row) == DOMAIN row \ {"by"}

AllRows ==
    Rows(sources) \cup Rows(raw_data) \cup Rows(quotes) \cup Rows(nodes)
    \cup Rows(edges) \cup Rows(quote_node_links)

\* C18: no column of any sources, raw_data, quotes, nodes, edges or
\* quote_node_links row contains a credential value a request carried as
\* user_ai_key, and a completion() call is made with a caller's credential
\* only by the run whose request carried it: every other call uses a secret
\* of the deployment.
C18_CredentialNotPersisted ==
    /\ \A key \in Credentials : \A row \in AllRows :
          \A c \in Columns(row) : ~Mentions(row[c], key.v)
    /\ \A i \in 1..Len(llmCalls) :
          \/ llmCalls[i].api_key \in {openrouterApiKey, geminiApiKey}
          \/ llmCalls[i].api_key = ReceivedKey(llmCalls[i].run)

C18_Witness ==
    \E u \in DOMAIN upload : \E r \in LaterRuns :
        /\ SuppliedKey(u) = Str(<<"k">>)
        /\ \E i \in CallsBy(u) : llmCalls[i].api_key = Str(<<"k">>)
        /\ Finished(r) /\ ReceivedKey(r) = Undefined
        /\ \E i \in CallsBy(r) : llmCalls[i].api_key = openrouterApiKey
        /\ sources # <<>> /\ raw_data # <<>>
        /\ RowsBy(quotes, r) # {} /\ RowsBy(nodes, r) # {} /\ RowsBy(edges, u) # {}

-----------------------------------------------------------------------------
(* C19: submissions processed at once                                      *)

\* No two rows of the table carry the same id
DistinctIds(table) ==
    \A i, j \in 1..Len(table) : i # j => table[i].id # table[j].id

\* C19: whatever the interleaving of the steps of the submissions, no two
\* sources rows and no two raw_data rows share an id; the rows a submission
\* wrote carry the owner, the metadata and the text of its own request, its
\* raw_data row references its own sources row, and its response names the
\* ids of its own two rows; the rows its analysis wrote carry its owner, its
\* quotes reference its raw_data row, and a raw_data row is stamped by the
\* analysis of its own submission only.
C19_NoCrossSubmissionBleed ==
    /\ DistinctIds(sources) /\ DistinctIds(raw_data)
    /\ \A u \in DOMAIN upload :
          LET request == upload[u].request IN
          /\ Cardinality(RowsBy(sources, u)) <= 1
          /\ Cardinality(RowsBy(raw_data, u)) <= 1
          /\ \A s \in RowsBy(sources, u) :
                /\ s.user_id = Owner(request)
                /\ s.metadata = BodyField(request, "source_metadata")
                /\ s.url = Field(BodyField(request, "source_metadata"), "url")
          /\ \A d \in RowsBy(raw_data, u) :
                /\ d.user_id = Owner(request)
                /\ d.content = Text(request)
                /\ d.source_id \in IdsBy(sources, u)
                /\ d.processed_at # Null => Finished(u) /\ Ok(analysis[u].response)
          /\ Answered(u) /\ Ok(upload[u].response) =>
                /\ upload[u].response.body.source_id \in IdsBy(sources, u)
                /\ upload[u].response.body.raw_data_id \in IdsBy(raw_data, u)
          /\ \A row \in GraphRowsBy(u) : row.user_id = Owner(request)
          /\ \A q \in RowsBy(quotes, u) : q.raw_data_id \in IdsBy(raw_data, u)

\* Two submissions of different owners and texts whose inserts alternated,
\* both analysed and answered
C19_Witness ==
    /\ Len(sources) = 2 /\ Len(raw_data) = 2
    /\ sources[1].by = "u1" /\ raw_data[1].by = "u2"
    /\ Owner(upload["u1"].request) # Owner(upload["u2"].request)
    /\ Text(upload["u1"].request) # Text(upload["u2"].request)
    /\ \A u \in DOMAIN upload :
          /\ Answered(u) /\ Ok(upload[u].response)
          /\ upload[u].response.body.analysis_status = "success"
          /\ RowsBy(quotes, u) # {} /\ RowsBy(nodes, u) # {}
    /\ quotes[1].by = "u2" /\ nodes[1].by = "u1"
    /\ \A d \in Rows(raw_data) : d.processed_at # Null

-----------------------------------------------------------------------------
(* C20: the end-to-end scenario                                            *)

\* A valid submission answered after its analysis extracted the end-to-end
\* fixture and no insert into quotes, nodes or edges and no update failed
EndToEndRun(u) ==
    /\ ValidUpload(upload[u].request)
    /\ Answered(u)
    /\ Finished(u)
    /\ analysis[u].analysisResult = EndToEndResult
    /\ analysis[u].logged \subseteq {"quote_node_links"}

\* C20: such a run ends with exactly one quotes row, one nodes row of type
\* pain, one quote_node_links row connecting that quote to that node, no edges
\* row, processed_at set on the raw_data row, and analysis_status "success".
C20_EndToEndScenario ==
    \A u \in DOMAIN upload :
        EndToEndRun(u) =>
            /\ Cardinality(RowsBy(quotes, u)) = 1
            /\ Cardinality(RowsBy(nodes, u)) = 1
            /\ \A n \in RowsBy(nodes, u) : n.type = Str(<<"pain">>)
            /\ Cardinality(RowsBy(quote_node_links, u)) = 1
            /\ \A l \in RowsBy(quote_node_links, u) :
                  /\ l.quote_id \in IdsBy(quotes, u)
                  /\ l.node_id \in IdsBy(nodes, u)
            /\ RowsBy(edges, u) = {}
            /\ \A d \in RowsBy(raw_data, u) : d.processed_at # Null
            /\ upload[u].response.body.analysis_status = "success"

-----------------------------------------------------------------------------
(* C21: an extraction of the wrong shape                                   *)

\* A parsed extraction that has one of the four collections as something
\* other than an array
WrongShape(analysisResult) ==
    \E f \in {"quotes", "nodes", "edges", "quote_node_links"} :
        /\ Field(analysisResult, f) # Undefined
        /\ ~IsArray(Field(analysisResult, f))

\* C21: a run whose LLM response parsed to an extraction of the wrong shape
\* ends with an error response, and no quotes, nodes, edges or
\* quote_node_links row is written from it.
C21_WrongShapeFails ==
    \A r \in DOMAIN analysis :
        Finished(r) /\ WrongShape(analysis[r].analysisResult) =>
            /\ ~Ok(analysis[r].response)
            /\ GraphRowsBy(r) = {}

-----------------------------------------------------------------------------
(* C22: the order of the steps of a submission                             *)

StepOrder ==
    <<"source", "content", "dispatch", "llm", "quotes", "nodes", "edges", "links", "stamp">>

\* The steps of a submission that have returned
StepsDone(u) ==
    {step \in Rows(StepOrder) :
        CASE step = "source"   -> upload[u].source # Undefined
          [] step = "content"  -> upload[u].rawData # Undefined
          [] step = "dispatch" -> analysis[u].pc # "idle"
          [] step = "llm"      -> CallsBy(u) # {}
          [] step = "quotes"   -> Past(u, {"saveNodes", "saveEdges", "saveLinks", "update"})
                                  \/ (Finished(u) /\ Ok(analysis[u].response))
          [] step = "nodes"    -> Past(u, {"saveEdges", "saveLinks", "update"})
                                  \/ (Finished(u) /\ Ok(analysis[u].response))
          [] step = "edges"    -> Past(u, {"saveLinks", "update"})
                                  \/ (Finished(u) /\ Ok(analysis[u].response))
          [] step = "links"    -> Past(u, {"update"})
                                  \/ (Finished(u) /\ Ok(analysis[u].response))
          [] step = "stamp"    -> Finished(u) /\ Ok(analysis[u].response)}

\* The insert of a collection of the extraction has returned: its rows are in
\* storage, or its error is logged, or there was nothing to insert
InsertReturned(u, f, table) ==
    \/ ~HasArray(analysis[u].analysisResult, f)
    \/ f \in analysis[u].logged
    \/ Cardinality(RowsBy(table, u)) = Len(Elements(analysis[u].analysisResult, f))

\* The first n steps of the order
FirstSteps(n) == {StepOrder[i] : i \in 1..n}

\* C22: at every moment the steps of a submission that have returned are the
\* first steps of the order source insert, raw_data insert, analysis
\* dispatch, LLM call, quotes insert, nodes insert, edges insert, links
\* insert, processed_at update; and the rows in storage are those of returned
\* steps: a raw_data row only after its sources row, an LLM call only with
\* the raw_data row in storage, quotes rows only after the LLM call, nodes
\* rows only after the quotes insert, edges and quote_node_links rows only
\* after both the quotes and the nodes insert, a stamp only after all four.
\* When the edges insert is reached, the quotes insert and the nodes insert
\* have returned.
C22_StepsInOrder ==
    \A u \in DOMAIN upload :
        /\ \E n \in 0..Len(StepOrder) : StepsDone(u) = FirstSteps(n)
        /\ "edges" \in StepsDone(u) \/ Past(u, {"saveEdges"}) =>
              InsertReturned(u, "quotes", quotes) /\ InsertReturned(u, "nodes", nodes)
        /\ RowsBy(sources, u) # {} => "source" \in StepsDone(u)
        /\ RowsBy(raw_data, u) # {} => "content" \in StepsDone(u) /\ RowsBy(sources, u) # {}
        /\ CallsBy(u) # {} => RowsBy(raw_data, u) # {}
        /\ RowsBy(quotes, u) # {} => "quotes" \in StepsDone(u)
        /\ RowsBy(nodes, u) # {} => "nodes" \in StepsDone(u)
        /\ RowsBy(edges, u) # {} => "edges" \in StepsDone(u)
        /\ RowsBy(quote_node_links, u) # {} => "links" \in StepsDone(u)
        /\ (\E d \in RowsBy(raw_data, u) : d.processed_at # Null) =>
              "stamp" \in StepsDone(u)

\* A step adds at most the next step of the order, and none is undone
C22_OneStepAtATime ==
    [][\A u \in DOMAIN upload :
          /\ StepsDone(u) \subseteq StepsDone(u)'
          /\ Cardinality(StepsDone(u)') <= Cardinality(StepsDone(u)) + 1]_vars

C22_Witness ==
    \E u \in DOMAIN upload :
        /\ StepsDone(u) = Rows(StepOrder)
        /\ RowsBy(quotes, u) # {} /\ RowsBy(nodes, u) # {} /\ RowsBy(edges, u) # {}
        /\ \A d \in RowsBy(raw_data, u) : d.processed_at # Null
        /\ Answered(u)

-----------------------------------------------------------------------------
(* C23: a failed insert of upload-data                                     *)

\* A request that passed validation and is past its two inserts without both
\* of its rows in storage
InsertFailed(u) ==
    /\ upload[u].request.method # ""
    /\ UploadValidation(upload[u].request) = NoResponse
    /\ upload[u].pc \notin {"idle", "saveSource", "saveText"}
    /\ RowsBy(sources, u) = {} \/ RowsBy(raw_data, u) = {}

\* C23: when the sources insert or the raw_data insert of a request fails,
\* the request is answered with an error and nothing of the analysis happens
\* for it: process-ai-analysis is not invoked, no LLM call is made, no quotes,
\* nodes, edges or quote_node_links row is written and no raw_data row of
\* the request exists to be stamped.
C23_FailedInsertEndsSubmission ==
    \A u \in DOMAIN upload :
        InsertFailed(u) =>
            /\ Answered(u)
            /\ upload[u].response \in {UploadFatal("sourceError"), UploadFatal("rawDataError")}
            /\ analysis[u].pc = "idle"
            /\ CallsBy(u) = {}
            /\ GraphRowsBy(u) = {}
            /\ RowsBy(raw_data, u) = {}

C23_Witness ==
    \E u \in DOMAIN upload :
        /\ InsertFailed(u)
        /\ RowsBy(sources, u) # {}
        /\ upload[u].response = UploadFatal("rawDataError")

-----------------------------------------------------------------------------
(* C24: a request for a row that is absent or another user's               *)

\* A request to process-ai-analysis that passed validation and names no
\* stored raw_data row of the user it names
NoSuchRow(r) ==
    /\ analysis[r].request.method # ""
    /\ AnalysisValidation(analysis[r].request) = NoResponse
    /\ ~\E d \in Rows(raw_data) :
          /\ d.id = Field(analysis[r].request.body, "raw_data_id")
          /\ d.user_id = Field(analysis[r].request.body, "user_id")

\* C24: a request to process-ai-analysis that names a raw_data_id not in
\* storage, or one whose row belongs to another user than the user_id it
\* names, is answered with an error once its fetch has returned; it makes no
\* LLM call and writes no row, and no step taken while it is being served
\* changes raw_data, processed_at included.
C24_NoSuchRowRefused ==
    /\ [](\A r \in LaterRuns :
            NoSuchRow(r) =>
                /\ CallsBy(r) = {}
                /\ GraphRowsBy(r) = {}
                /\ analysis[r].pc \in {"fetch", "done"}
                /\ Finished(r) => analysis[r].response = AnalysisError("fetchError"))
    /\ [][\A r \in LaterRuns : NoSuchRow(r) => raw_data' = raw_data]_vars

C24_Witness ==
    \E r \in LaterRuns :
        /\ NoSuchRow(r) /\ Finished(r)
        /\ Field(analysis[r].request.body, "user_id") = Str(<<"b">>)
        /\ \E d \in Rows(raw_data) :
              /\ d.id = Field(analysis[r].request.body, "raw_data_id")
              /\ d.user_id = Str(<<"a">>)
              /\ d.processed_at = Timestamp(1)

-----------------------------------------------------------------------------
(* C25: requests process-ai-analysis rejects at validation                 *)

\* A request with another method than POST, with a body that is no JSON, or
\* with a body that lacks raw_data_id or user_id or has one of them empty
Invalid(request) ==
    /\ request.method # ""
    /\ \/ request.method # "POST"
       \/ request.body = InvalidJson
       \/ ~Truthy(Field(request.body, "raw_data_id"))
       \/ ~Truthy(Field(request.body, "user_id"))

\* Nothing in storage and no LLM call stems from the run
Untouched(r) == CallsBy(r) = {} /\ GraphRowsBy(r) = {}

\* C25: such a request is answered 405 or 400 as soon as it is received,
\* before any storage read, LLM call or storage write.
C25_InvalidRequestRejected ==
    \A r \in LaterRuns :
        Invalid(analysis[r].request) =>
            /\ Finished(r)
            /\ analysis[r].response.status \in {400, 405}
            /\ Untouched(r)

-----------------------------------------------------------------------------
(* C26: the debug field of the responses of process-ai-analysis            *)

\* A POST whose body carries a raw_data_id and a user_id
Complete(request) ==
    /\ request.method = "POST"
    /\ Truthy(Field(request.body, "raw_data_id"))
    /\ Truthy(Field(request.body, "user_id"))

\* C26: the body of every response of process-ai-analysis to such a request
\* has a debug field, also when the raw_data_id names no stored row.
C26_DebugAlwaysPresent ==
    \A r \in DOMAIN analysis :
        Finished(r) /\ Complete(analysis[r].request) =>
            "debug" \in DOMAIN analysis[r].response.body

-----------------------------------------------------------------------------
(* C27: the /upload route without a session                                *)

\* A request the route received from a caller without a session
Anonymous(u) == upload[u].route.used /\ ~Truthy(upload[u].route.user)

\* C27: a request to the /upload route without a session is answered 401; no
\* request is sent to upload-data for it, so no sources or raw_data row is
\* written, process-ai-analysis is not invoked and no LLM call is made, and
\* the credential of its body is neither forwarded nor logged.
C27_AnonymousStopsAtRoute ==
    \A u \in DOMAIN upload :
        Anonymous(u) =>
            /\ upload[u].route.response.status = 401
            /\ upload[u].request = IdleUpload.request
            /\ upload[u].response = NoResponse
            /\ RowsBy(sources, u) = {} /\ RowsBy(raw_data, u) = {}
            /\ analysis[u].pc = "idle"
            /\ CallsBy(u) = {}
            /\ NonEmptyKey(RouteKey(u)) =>
                  \A line \in RouteLogged(upload[u].route.user, upload[u].route.body) :
                      ~Mentions(line, RouteKey(u).v)

C27_Witness ==
    \E u \in DOMAIN upload :
        /\ Anonymous(u)
        /\ RouteKey(u) = Str(<<"k">>)
        /\ RouteField(upload[u].route.body, "text_content") = Str(<<"x">>)
        /\ upload[u].route.response.status = 401

-----------------------------------------------------------------------------
(* C28: no retry                                                           *)

\* C28: for one submission at most one completion() call is ever made, the
\* request upload-data sent to process-ai-analysis is never sent again, and
\* once the analysis has answered, with a failure or not, nothing more is
\* done for it: no further call, no further row.
C28_NoRetry ==
    /\ [](\A u \in DOMAIN upload : Cardinality(CallsBy(u)) <= 1)
    /\ [][\A u \in DOMAIN upload :
            /\ analysis[u].pc # "idle" =>
                  /\ analysis'[u].pc # "idle"
                  /\ analysis'[u].request = analysis[u].request
            /\ Finished(u) =>
                  /\ analysis'[u] = analysis[u]
                  /\ CallsBy(u)' = CallsBy(u)
                  /\ GraphRowsBy(u)' = GraphRowsBy(u)]_vars

\* A submission answered after its one LLM call failed
C28_Witness ==
    \E u \in DOMAIN upload :
        /\ Answered(u)
        /\ Cardinality(CallsBy(u)) = 1
        /\ analysis[u].response = AnalysisRejected(SuppliedKey(u), FALSE)
        /\ upload[u].response.body.analysis_status = "failed"

-----------------------------------------------------------------------------
(* C29: the wait for the provider                                          *)

\* C29: the wait for the provider is bounded by the code: a run that waits
\* for completion() ends, with a failure when the provider never answers, and
\* the submission that waits for the run is answered.
C29_ProviderWaitBounded ==
    /\ Waiting("u1") ~> Finished("u1")
    /\ (upload["u1"].pc = "awaitAnalysis") ~> Answered("u1")

-----------------------------------------------------------------------------
(* C30: the state machine of a submission                                  *)

\* upload-data has received the request of the submission
Received(u) == upload[u].request # IdleUpload.request

\* The state of a submission, read from what the two handlers have done
SubmissionState(u) ==
    CASE ~Received(u)                         -> "none"
      [] Received(u) /\ upload[u].source = Undefined
                                              -> "received"
      [] upload[u].source # Undefined /\ upload[u].rawData = Undefined
                                              -> "source_saved"
      [] BothSaved(u) /\ analysis[u].pc = "idle"
                                              -> "content_saved"
      [] BothSaved(u) /\ analysis[u].pc \notin {"idle", "update", "done"}
                                              -> "analysis_dispatched"
      [] BothSaved(u) /\ analysis[u].pc = "update"
                                              -> "analysis_succeeded"
      [] BothSaved(u) /\ Finished(u) /\ ~Ok(analysis[u].response)
                                              -> "analysis_failed"
      [] BothSaved(u) /\ Finished(u) /\ Ok(analysis[u].response)
                                              -> "processed_marked"

\* The moves of the state machine
StateMoves ==
    {<<"none", "received">>,
     <<"received", "source_saved">>,
     <<"source_saved", "content_saved">>,
     <<"content_saved", "analysis_dispatched">>,
     <<"analysis_dispatched", "analysis_succeeded">>,
     <<"analysis_dispatched", "analysis_failed">>,
     <<"analysis_succeeded", "processed_marked">>,
     <<"analysis_failed", "processed_marked">>}

\* C30: a submission moves only along the moves of the state machine, one
\* state at a time, so that no state is skipped and none is entered twice;
\* once it is answered its state and its response no longer change; and
\* when every storage and provider call returns, a submission upload-data
\* received is answered.
C30_LinearStateMachine ==
    /\ [][\A u \in DOMAIN upload :
            /\ SubmissionState(u)' # SubmissionState(u) =>
                  <<SubmissionState(u), SubmissionState(u)'>> \in StateMoves
            /\ Answered(u) =>
                  /\ SubmissionState(u)' = SubmissionState(u)
                  /\ upload'[u].response = upload[u].response
            /\ ~Answered(u) => upload[u].response = NoResponse]_vars
    /\ Received("u1") ~> Answered("u1")

\* A submission answered after it went through every state of the
\* successful path
C30_Witness ==
    \E u \in DOMAIN upload :
        /\ Answered(u)
        /\ SubmissionState(u) = "processed_marked"
        /\ upload[u].response.body.analysis_status = "success"
        /\ \A d \in RowsBy(raw_data, u) : d.processed_at # Null

-----------------------------------------------------------------------------
(* C31: a failure before materialization                                   *)

\* The run made its LLM call and ended without an extraction to materialize:
\* completion() threw, the content was empty, or the text did not parse
FailedBeforeMaterialization(r) ==
    /\ Finished(r)
    /\ CallsBy(r) # {}
    /\ analysis[r].analysisResult = Undefined

\* C31: a run that fails before materialization answers with an error and
\* has written no quotes, nodes, edges or quote_node_links row.
C31_EarlyFailureWritesNothing ==
    \A r \in DOMAIN analysis :
        FailedBeforeMaterialization(r) =>
            /\ analysis[r].response.status = 500
            /\ "error" \in DOMAIN analysis[r].response.body
            /\ GraphRowsBy(r) = {}

\* A run whose LLM answered with text that is not JSON
C31_Witness ==
    \E r \in DOMAIN analysis :
        /\ FailedBeforeMaterialization(r)
        /\ analysis[r].response = AnalysisFailed("Failed to parse LLM JSON response: ")
        /\ GraphRowsBy(r) = {}

-----------------------------------------------------------------------------
(* C32: rows and entries, when the ids of the extraction are unique        *)

\* No two entries of an array are filed under the same key
UniqueKeys(entries) ==
    \A i, j \in 1..Len(entries) :
        i # j => ~SameKey(KeyOf(entries, i), KeyOf(entries, j))

\* Neither the quotes insert nor the nodes insert of the run failed, and
\* the ids of either array are unique
ExactIds(r) ==
    /\ Past(r, {"saveEdges", "saveLinks", "update", "done"})
    /\ analysis[r].analysisResult # Undefined
    /\ {"quotes", "nodes"} \cap analysis[r].logged = {}
    /\ UniqueKeys(EntriesOf(r, "quotes")) /\ UniqueKeys(EntriesOf(r, "nodes"))

\* What a column holds for a value of the extraction
AsStored(v) == IF v.t = "undefined" THEN Null ELSE v

\* The id of the row inserted for the entry that ref names
DurableId(r, table, f, ref) ==
    RowsSeqBy(table, r)[LastIndex(EntriesOf(r, f), ref)].id

\* The edges rows of the run are, in order, one per resolvable edge entry
EdgesCorrespond(r) ==
    LET rows == RowsSeqBy(edges, r)
        from == ResolvableEdges(r)
    IN  /\ Len(rows) = Len(from)
        /\ \A j \in 1..Len(from) :
              /\ rows[j].from_node_id =
                    DurableId(r, nodes, "nodes", Field(from[j], "from_node_id"))
              /\ rows[j].to_node_id =
                    DurableId(r, nodes, "nodes", Field(from[j], "to_node_id"))
              /\ rows[j].type = AsStored(Field(from[j], "type"))
              /\ rows[j].description = AsStored(Field(from[j], "description"))

\* The rows a run submits to quote_node_links are, in order, one per
\* resolvable link entry
LinksCorrespond(r) ==
    LET rows == LinksBatch(r)
        from == ResolvableLinks(r)
    IN  /\ Len(rows) = Len(from)
        /\ \A j \in 1..Len(from) :
              /\ rows[j].quote_id =
                    DurableId(r, quotes, "quotes", Field(from[j], "quote_id"))
              /\ rows[j].node_id =
                    DurableId(r, nodes, "nodes", Field(from[j], "node_id"))

\* C32: when the ids of the quotes and of the nodes are unique and neither
\* insert failed, the edges rows a run wrote are, in order, one per edge entry
\* whose endpoints both name a node of the extraction, carrying the ids of
\* the rows inserted for those nodes (the i-th entry has the i-th row) and
\* the type and description of the entry; every quote_node_links row, stored
\* or submitted to storage, connects the row of the quote and the row of the
\* node that a link entry names.
C32_RowsMatchEntries ==
    \A r \in DOMAIN analysis :
        ExactIds(r) =>
            /\ EdgesStored(r) => EdgesCorrespond(r)
            /\ Past(r, {"saveLinks"}) => LinksCorrespond(r)
            /\ \A l \in RowsBy(quote_node_links, r) :
                  \E j \in 1..Len(ResolvableLinks(r)) :
                      /\ l.quote_id = DurableId(r, quotes, "quotes",
                                                Field(ResolvableLinks(r)[j], "quote_id"))
                      /\ l.node_id = DurableId(r, nodes, "nodes",
                                               Field(ResolvableLinks(r)[j], "node_id"))

\* A run that stored two edges between its two nodes, one of them named by
\* its position
C32_Witness ==
    \E r \in DOMAIN analysis :
        /\ Finished(r) /\ ExactIds(r)
        /\ EntriesOf(r, "nodes") = <<NodeEntry(Undefined), NodeEntry(Num(1))>>
        /\ EntriesOf(r, "edges") = <<EdgeEntry(Num(0), Num(1)), EdgeEntry(Num(1), Num(0))>>
        /\ Len(RowsSeqBy(edges, r)) = 2
        /\ RowsSeqBy(edges, r)[1].from_node_id = RowsSeqBy(nodes, r)[1].id
        /\ RowsSeqBy(edges, r)[1].to_node_id = RowsSeqBy(nodes, r)[2].id

-----------------------------------------------------------------------------
(* C33: the choice of the credential                                       *)

\* A user_ai_key that counts as absent: no value, no string, or a string
\* that is empty once trimmed
AbsentKey(key) == key.t # "string" \/ Trim(key.v) = <<>>

\* The run has chosen its credential: it made its LLM call or ended for
\* want of a key
Resolved(r) ==
    \/ CallsBy(r) # {}
    \/ analysis[r].response = AnalysisFailed("No valid API key available for LLM call.")

\* What the run chose, from what it received and what the deployment holds
Chosen(r) == SelectApiKey(ReceivedKey(r), openrouterApiKey, geminiApiKey)

\* C33: a run chooses one credential with its provider, or fails.  A
\* user_ai_key that is absent, no string or blank counts as absent; then
\* OPENROUTER_API_KEY is chosen whenever it is set, GEMINI_API_KEY only when
\* OPENROUTER_API_KEY is not set, and with neither the run fails without a
\* call; otherwise the caller's key is chosen.  The api_key of the run's
\* one LLM call is the credential chosen.
C33_OneCredentialChosen ==
    \A r \in DOMAIN analysis :
        Resolved(r) =>
            /\ Cardinality(CallsBy(r)) <= 1
            /\ Chosen(r).selectedProvider \in {"user", "openrouter", "gemini", "none"}
            /\ Chosen(r).selectedProvider = "none" <=> CallsBy(r) = {}
            /\ \A i \in CallsBy(r) : llmCalls[i].api_key = Chosen(r).selectedApiKey
            /\ ~AbsentKey(ReceivedKey(r)) =>
                  /\ Chosen(r).selectedProvider = "user"
                  /\ \A i \in CallsBy(r) : llmCalls[i].api_key = ReceivedKey(r)
            /\ (AbsentKey(ReceivedKey(r)) /\ openrouterApiKey # Undefined) =>
                  /\ Chosen(r).selectedProvider = "openrouter"
                  /\ \A i \in CallsBy(r) : llmCalls[i].api_key = openrouterApiKey
            /\ (AbsentKey(ReceivedKey(r)) /\ openrouterApiKey = Undefined
                    /\ geminiApiKey # Undefined) =>
                  /\ Chosen(r).selectedProvider = "gemini"
                  /\ \A i \in CallsBy(r) : llmCalls[i].api_key = geminiApiKey
            /\ (AbsentKey(ReceivedKey(r)) /\ openrouterApiKey = Undefined
                    /\ geminiApiKey = Undefined) =>
                  /\ CallsBy(r) = {}
                  /\ analysis[r].response.status = 500

\* A run that received a blank user_ai_key while both secrets are set, and
\* called the LLM with OPENROUTER_API_KEY
C33_Witness ==
    \E r \in DOMAIN analysis :
        /\ ReceivedKey(r) = Str(<<" ">>)
        /\ openrouterApiKey = Str(<<"o">>) /\ geminiApiKey = Str(<<"g">>)
        /\ \E i \in CallsBy(r) : llmCalls[i].api_key = Str(<<"o">>)

-----------------------------------------------------------------------------
(* C34: what the caller is told when the analysis failed                   *)

\* The body names the rows that were saved
NamesSaved(body, u) ==
    /\ Field(body, "raw_data_id") = upload[u].rawData.id
    /\ Field(body, "source_id") = upload[u].source.id

\* The body says what failed, beyond the analysis_status flag
DescribesFailure(body) ==
    \/ Truthy(Field(Field(body, "debug"), "analysis_invoke_error"))
    \/ "error" \in DOMAIN body

\* The part of C34 about upload-data itself: its answer to a submission whose
\* analysis failed names the saved rows and carries the invocation error.
C34_DirectFailureDescribed ==
    \A u \in DOMAIN upload :
        (Answered(u) /\ AnalysisInvokeFailed(u)) =>
            /\ NamesSaved(upload[u].response.body, u)
            /\ DescribesFailure(upload[u].response.body)

\* C34: when the analysis failed after the content was saved, what the
\* caller receives, from upload-data and from the /upload route alike, names
\* the saved rows and says what failed.
C34_FailureDescribed ==
    \A u \in DOMAIN upload :
        (Answered(u) /\ AnalysisInvokeFailed(u)) =>
            /\ NamesSaved(upload[u].response.body, u)
            /\ DescribesFailure(upload[u].response.body)
            /\ upload[u].route.response # NoResponse =>
                  /\ NamesSaved(upload[u].route.response.body, u)
                  /\ DescribesFailure(upload[u].route.response.body)

-----------------------------------------------------------------------------
(* C35: a sources row and its raw_data row                                 *)

\* The raw_data rows that reference a sources row
ContentOf(s) == {d \in Rows(raw_data) : d.source_id = s.id}

\* C35: once upload-data has answered a request, every sources row the
\* request created is referenced by exactly one raw_data row, also when the
\* raw_data insert failed.
C35_NoSourceWithoutContent ==
    \A u \in DOMAIN upload :
        Answered(u) =>
            \A s \in RowsBy(sources, u) : Cardinality(ContentOf(s)) = 1

-----------------------------------------------------------------------------
(* C36: a 200 answer and processed_at                                      *)

\* C36: whenever process-ai-analysis has answered 200, and so whenever
\* upload-data reports analysis_status "success", processed_at is set on the
\* raw_data row the run analysed, also when the processed_at update itself
\* returned an error.
C36_SuccessMeansStamped ==
    /\ \A r \in DOMAIN analysis :
          (Finished(r) /\ Ok(analysis[r].response)) =>
              /\ Named(r) # {}
              /\ \A d \in Named(r) : d.processed_at # Null
    /\ \A u \in DOMAIN upload :
          (Answered(u) /\ BothSaved(u)
              /\ upload[u].response.body.analysis_status = "success") =>
              \A d \in RowsBy(raw_data, u) : d.processed_at # Null

-----------------------------------------------------------------------------
(* C37: after a failed nodes insert, after a failed quotes insert          *)

\* The inserts of the run that returned an error, the links insert aside
FailedInserts(r) == analysis[r].logged \cap {"quotes", "nodes", "edges"}

\* C37: a run whose nodes insert failed writes no edges row and no
\* quote_node_links row, and submits none, since no entry can be resolved
\* through the empty node mapping; the quotes rows it inserted remain.  A run
\* in which only the quotes insert failed still writes its nodes rows and its
\* edges rows, and writes and submits no quote_node_links row.
C37_FailedInsertAndReferences ==
    \A r \in DOMAIN analysis :
        /\ ("nodes" \in analysis[r].logged /\ Past(r, {"saveEdges"})) =>
              EdgesBatch(r) = <<>>
        /\ ({"quotes", "nodes"} \cap analysis[r].logged # {} /\ Past(r, {"saveLinks"})) =>
              LinksBatch(r) = <<>>
        /\ (Finished(r) /\ "nodes" \in analysis[r].logged) =>
              /\ RowsBy(edges, r) = {} /\ RowsBy(quote_node_links, r) = {}
              /\ "quotes" \notin analysis[r].logged =>
                    Len(RowsSeqBy(quotes, r)) = Len(EntriesOf(r, "quotes"))
        /\ (Finished(r) /\ Materializing(r) /\ FailedInserts(r) = {"quotes"}) =>
              /\ RowsBy(quotes, r) = {}
              /\ Len(RowsSeqBy(nodes, r)) = Len(EntriesOf(r, "nodes"))
              /\ Len(RowsSeqBy(edges, r)) = Len(ResolvableEdges(r))
              /\ RowsBy(quote_node_links, r) = {}

\* A run whose quotes insert failed and which stored its two nodes and the
\* edge between them
C37_Witness ==
    \E r \in DOMAIN analysis :
        /\ Finished(r) /\ FailedInserts(r) = {"quotes"}
        /\ RowsBy(quotes, r) = {}
        /\ Cardinality(RowsBy(nodes, r)) = 2
        /\ Cardinality(RowsBy(edges, r)) = 1

-----------------------------------------------------------------------------
(* C38: an entry without an id is named by its position                    *)

\* Entry i of the array carries no id of its own
NoOwnId(entries, i) == Field(entries[i], "id") \in {Undefined, Null}

\* No other entry of the array is filed under the position of entry i
PositionFree(entries, i) ==
    \A j \in 1..Len(entries) : j # i => ~SameKey(KeyOf(entries, j), Num(i - 1))

\* The mapping of an array whose insert went through holds, for every entry
\* without an id, under its 0-based position: the id of the row of that
\* entry when no other entry is filed under the position, and otherwise the
\* id of the row of the last entry filed under it
PositionsMapped(map, entries, rows) ==
    \A i \in 1..Len(entries) :
        NoOwnId(entries, i) =>
            /\ Truthy(Lookup(map, Num(i - 1)))
            /\ PositionFree(entries, i) => Lookup(map, Num(i - 1)) = rows[i].id
            /\ Lookup(map, Num(i - 1)) = rows[LastIndex(entries, Num(i - 1))].id

\* An edge or link reference that names the position of an entry without id
NamesPosition(entries, ref) ==
    \E i \in 1..Len(entries) : NoOwnId(entries, i) /\ SameKey(ref, Num(i - 1))

\* C38: a quote or node entry without an id is filed under its 0-based
\* position in its array.  An edge or link that names the position is
\* resolved to the row of that entry, provided no other entry of the array
\* has the position as its id; when an id and a position give the same key,
\* the reference is resolved to the row of the later entry.
C38_PositionNamesEntry ==
    \A r \in DOMAIN analysis :
        /\ NodesStored(r) =>
              PositionsMapped(analysis[r].nodeTempIdToDbId, EntriesOf(r, "nodes"),
                              RowsSeqBy(nodes, r))
        /\ QuotesStored(r) =>
              PositionsMapped(analysis[r].quoteTempIdToDbId, EntriesOf(r, "quotes"),
                              RowsSeqBy(quotes, r))
        /\ (NodesStored(r) /\ Past(r, {"saveEdges"})) =>
              \A k \in 1..Len(EntriesOf(r, "edges")) :
                  LET e == EntriesOf(r, "edges")[k] IN
                  ( /\ NamesPosition(EntriesOf(r, "nodes"), Field(e, "from_node_id"))
                    /\ Known(EntriesOf(r, "nodes"), Field(e, "to_node_id")) ) =>
                      \E j \in 1..Len(EdgesBatch(r)) :
                          /\ EdgesBatch(r)[j].from_node_id =
                                DurableId(r, nodes, "nodes", Field(e, "from_node_id"))
                          /\ EdgesBatch(r)[j].to_node_id =
                                DurableId(r, nodes, "nodes", Field(e, "to_node_id"))
        /\ (NodesStored(r) /\ QuotesStored(r) /\ Past(r, {"saveLinks"})) =>
              \A k \in 1..Len(EntriesOf(r, "quote_node_links")) :
                  LET l == EntriesOf(r, "quote_node_links")[k] IN
                  ( /\ NamesPosition(EntriesOf(r, "quotes"), Field(l, "quote_id"))
                    /\ Known(EntriesOf(r, "nodes"), Field(l, "node_id")) ) =>
                      \E j \in 1..Len(LinksBatch(r)) :
                          /\ LinksBatch(r)[j].quote_id =
                                DurableId(r, quotes, "quotes", Field(l, "quote_id"))
                          /\ LinksBatch(r)[j].node_id =
                                DurableId(r, nodes, "nodes", Field(l, "node_id"))

\* A run whose second node has no id and whose first has the id 1: the edge
\* that names 1 is stored between the row of the second node and itself
C38_Witness ==
    \E r \in DOMAIN analysis :
        /\ Finished(r) /\ analysis[r].logged = {}
        /\ EntriesOf(r, "nodes") = <<NodeEntry(Num(1)), NodeEntry(Undefined)>>
        /\ EntriesOf(r, "edges") = <<EdgeEntry(Num(1), Num(1))>>
        /\ Len(RowsSeqBy(edges, r)) = 1
        /\ RowsSeqBy(edges, r)[1].from_node_id = RowsSeqBy(nodes, r)[2].id
        /\ RowsSeqBy(edges, r)[1].to_node_id = RowsSeqBy(nodes, r)[2].id

-----------------------------------------------------------------------------
(* C39: concurrent runs that use the same extraction-local ids             *)

\* The ids a mapping holds
MappedIds(map) == {map[k] : k \in DOMAIN map}

-----------------------------------------------------------------------------
(* C40: a pair of quote and node linked more than once                     *)

\* Two rows of a batch carry the same (quote_id, node_id)
SamePairTwice(rows) ==
    \E i, j \in 1..Len(rows) :
        i # j /\ rows[i].quote_id = rows[j].quote_id /\ rows[i].node_id = rows[j].node_id

\* Two resolvable link entries of the run name the same quote and node
RepeatedLinks(r) ==
    \E i, j \in 1..Len(ResolvableLinks(r)) :
        /\ i # j
        /\ SameKey(Field(ResolvableLinks(r)[i], "quote_id"),
                   Field(ResolvableLinks(r)[j], "quote_id"))
        /\ SameKey(Field(ResolvableLinks(r)[i], "node_id"),
                   Field(ResolvableLinks(r)[j], "node_id"))

\* C40: no two quote_node_links rows in storage carry the same (quote_id,
\* node_id).  When link entries of a run resolve to the same pair more than
\* once, the run submits them all, one row per entry; storage rejects the
\* insert, which the run logs; and the run goes on to the processed_at
\* update and answers 200.
C40_DuplicateLinksRejected ==
    /\ ~SamePairTwice(quote_node_links)
    /\ \A r \in DOMAIN analysis :
          /\ (Past(r, {"saveLinks", "update", "done"}) /\ RepeatedLinks(r)) =>
                /\ Len(LinksBatch(r)) = Len(ResolvableLinks(r))
                /\ SamePairTwice(LinksBatch(r))
          /\ (Past(r, {"update", "done"}) /\ SamePairTwice(LinksBatch(r))) =>
                /\ "quote_node_links" \in analysis[r].logged
                /\ RowsBy(quote_node_links, r) = {}
          /\ (Finished(r) /\ Materializing(r) /\ SamePairTwice(LinksBatch(r))) =>
                /\ Ok(analysis[r].response)
                /\ Stamped(r)

\* A run whose two link entries name the same quote and node: both were
\* submitted, the insert was rejected, the row is stamped and the answer 200
C40_Witness ==
    \E r \in DOMAIN analysis :
        /\ Finished(r) /\ Ok(analysis[r].response)
        /\ Len(LinksBatch(r)) = 2 /\ SamePairTwice(LinksBatch(r))
        /\ analysis[r].logged = {"quote_node_links"}
        /\ RowsBy(quote_node_links, r) = {}
        /\ \A d \in Named(r) : d.processed_at # Null

====
